---- MODULE Spec2Model ----
(***************************************************************************)
(* Driver trip analytics of riaz37/trucklagbe.                             *)
(*                                                                         *)
(* The store is four relations (drivers, trips, payments, ratings).  Four  *)
(* read paths aggregate them into a DriverAnalytics value:                 *)
(*   DbUnoptimized   DatabaseService.getDriverAnalyticsUnoptimized (JOIN)  *)
(*   DbOptimized     DatabaseService.getDriverAnalyticsOptimized (fan-out) *)
(*   SvcUnoptimized  TripAnalyticsService.getDriverAnalyticsUnoptimized    *)
(*   SvcCached       TripAnalyticsService.getDriverAnalytics (cache-aside) *)
(*                                                                         *)
(* Money is kept in cents and ratings in hundredths (DECIMAL(10,2) and     *)
(* DECIMAL(3,2) columns).  An average rating is kept in millionths, the    *)
(* scale of MySQL's AVG over DECIMAL(3,2); a mean computed in JavaScript   *)
(* is kept to the same scale.                                              *)
(***************************************************************************)
EXTENDS Integers, Sequences, FiniteSets, TLC

\* ------------------------------------------------------------------------
\* Bounds of the model
\* ------------------------------------------------------------------------
\* trips whose driver, payment and rating vary freely in a generated store
MaxTrips == 2
\* trips that vary in a store that also holds the bulk of recent trips
BulkVaried == 2
\* requests in flight at a time
MaxReqs == 1
\* requests started in one run of the service
MaxCalls == 2
\* trips the store of a running service grows to
MaxSpecTrips == 1
\* steps of the clock in one run
MaxTicks == 3

\* ------------------------------------------------------------------------
\* Program constants
\* ------------------------------------------------------------------------
\* `take: 50` of the trip-detail query
TakeLimit == 50
\* redisService.set(cacheKey, analytics, 300)
CacheTTL == 300

\* ------------------------------------------------------------------------
\* Generic helpers
\* ------------------------------------------------------------------------
RECURSIVE SeqSum(_)
SeqSum(s) == IF s = <<>> THEN 0 ELSE Head(s) + SeqSum(Tail(s))

RECURSIVE Flatten(_)
Flatten(ss) == IF ss = <<>> THEN <<>> ELSE Head(ss) \o Flatten(Tail(ss))

Range(s) == { s[i] : i \in 1..Len(s) }

Abs(x) == IF x < 0 THEN -x ELSE x

Min(a, b) == IF a < b THEN a ELSE b

\* ------------------------------------------------------------------------
\* The store: drivers, trips, payments, ratings
\* ------------------------------------------------------------------------
\* A DATE/DateTime column value as the driver hands it over (a Date object)
DateOf(n) == [type |-> "Date", v |-> n]

\* INSERT IGNORE INTO drivers ... (1, 'John Doe', ...), (2, 'Jane Smith', ...)
DriverRows ==
  << [driver_id |-> 1, driver_name |-> "John Doe",
      phone_number |-> "+1234567890", onboarding_date |-> DateOf(20230115)],
     [driver_id |-> 2, driver_name |-> "Jane Smith",
      phone_number |-> "+1234567891", onboarding_date |-> DateOf(20230220)] >>

DriverIds == { DriverRows[i].driver_id : i \in 1..Len(DriverRows) }

\* an id with no row in drivers (the 999999 of the test scenarios)
UnknownDriverId == Len(DriverRows) + 1

RequestIds == DriverIds \cup {UnknownDriverId}

\* What a trip of a generated store carries: an optional payment row and an
\* optional rating row (a sequence of length 0 or 1 each).
TripKinds ==
  { [pay |-> <<>>, rate |-> <<>>],
    [pay |-> <<15000>>, rate |-> << [rating_value |-> 450, comment |-> "Great service!"] >>],
    [pay |-> <<20000>>, rate |-> <<>>],
    [pay |-> <<>>, rate |-> << [rating_value |-> 400, comment |-> "Good trip"] >>],
    [pay |-> <<18000>>, rate |-> << [rating_value |-> 0, comment |-> ""] >>] }

\* the recent trips of a bulk store: all paid and rated 5.00
BulkKind ==
  [pay |-> <<10000>>, rate |-> << [rating_value |-> 500, comment |-> "Excellent driver"] >>]

BulkCount == TakeLimit - 1

VariedSpecs(n) == [1..n -> [driver : DriverIds, kind : TripKinds]]

\* trips (trip_id, driver_id, start_location, end_location, trip_date):
\* the varied trips are the oldest, two to a day; the bulk trips follow,
\* one a day.
TripRow(i, d, day) ==
  [trip_id |-> i, driver_id |-> d, start_location |-> "Dhaka",
   end_location |-> "Chittagong", trip_date |-> DateOf(day)]

MkStore(varied, bulk) ==
  LET n    == Len(varied)
      m    == IF bulk THEN BulkCount ELSE 0
      kind(i) == IF i <= n THEN varied[i].kind ELSE BulkKind
  IN  [ drivers  |-> DriverRows,
        trips    |-> [i \in 1..(n + m) |->
                        IF i <= n THEN TripRow(i, varied[i].driver, (i + 1) \div 2)
                                  ELSE TripRow(i, 1, 10 + (i - n))],
        payments |-> Flatten([i \in 1..(n + m) |->
                        IF kind(i).pay = <<>> THEN <<>>
                        ELSE << [trip_id |-> i, amount |-> kind(i).pay[1]] >>]),
        ratings  |-> Flatten([i \in 1..(n + m) |->
                        IF kind(i).rate = <<>> THEN <<>>
                        ELSE << [trip_id |-> i,
                                 rating_value |-> kind(i).rate[1].rating_value,
                                 comment |-> kind(i).rate[1].comment] >>]) ]

SmallStores ==
  UNION { { MkStore(v, FALSE) : v \in VariedSpecs(n) } : n \in 0..MaxTrips }

BulkStores ==
  { MkStore(v, TRUE) :
      v \in { w \in VariedSpecs(BulkVaried) : \A i \in 1..BulkVaried : w[i].driver = 1 } }

\* the three trips of the documented scenario: (150.00, 4.5), (200.00, no
\* rating), (no payment, 4.0), all of driver 1
ScenarioStore ==
  MkStore([i \in 1..3 |->
             [driver |-> 1,
              kind |-> CHOOSE k \in TripKinds :
                         \/ i = 1 /\ k.pay = <<15000>>
                         \/ i = 2 /\ k.pay = <<20000>>
                         \/ i = 3 /\ k.pay = <<>> /\ k.rate # <<>>]], FALSE)

StoreFamily == SmallStores \cup BulkStores \cup {ScenarioStore}

\* rows of a table satisfying a condition, in table order
TripsOfDriver(st, d) == SelectSeq(st.trips, LAMBDA t : t.driver_id = d)
PaymentsOfTrip(st, tid) == SelectSeq(st.payments, LAMBDA p : p.trip_id = tid)
RatingsOfTrip(st, tid) == SelectSeq(st.ratings, LAMBDA r : r.trip_id = tid)
DriverById(st, d) == SelectSeq(st.drivers, LAMBDA r : r.driver_id = d)

\* ------------------------------------------------------------------------
\* Values and arithmetic
\* ------------------------------------------------------------------------
\* SQL NULL / JSON null
NULL == [type |-> "null"]

\* a quotient num/den not yet evaluated (den > 0)
Frac(n, d) == [num |-> n, den |-> d]

\* nearest integer to n/d, halves upwards (n >= 0, d > 0)
RoundDiv(n, d) == (2 * n + d) \div (2 * d)

\* millionths in one hundredth
MicroPerCenti == 10000

\* sum / n of values in hundredths, as a number in millionths
MeanMicro(sum, n) == RoundDiv(MicroPerCenti * sum, n)

\* COALESCE(x, dflt) on an optional value
Coalesce(opt, dflt) == IF opt = <<>> THEN dflt ELSE opt[1]

\* ------------------------------------------------------------------------
\* The SQL of the single-query strategy
\* ------------------------------------------------------------------------
\* the one value of a left-joined table for one row: each matching row, or a
\* single NULL row when nothing matches
LeftRows(rows) ==
  IF rows = <<>> THEN << <<>> >> ELSE [i \in 1..Len(rows) |-> << rows[i] >>]

\* FROM trips t LEFT JOIN payments p ON t.id = p.trip_id
\*              LEFT JOIN ratings r ON t.id = r.trip_id   (for one trip)
JoinTrip(st, t) ==
  LET P == LeftRows(PaymentsOfTrip(st, t.trip_id))
      R == LeftRows(RatingsOfTrip(st, t.trip_id))
  IN  Flatten([i \in 1..Len(P) |->
                 [j \in 1..Len(R) |-> [t |-> <<t>>, p |-> P[i], r |-> R[j]]]])

\* the trips side of the join, WHERE t.driver_id = d
JoinTrips(st, d) ==
  LET T == TripsOfDriver(st, d)
  IN  Flatten([i \in 1..Len(T) |-> JoinTrip(st, T[i])])

\* FROM drivers d LEFT JOIN trips t ... WHERE d.id = d: no row without the
\* driver, one all-NULL trip row for a driver without trips
JoinDriver(st, d) ==
  IF DriverById(st, d) = <<>> THEN <<>>
  ELSE IF JoinTrips(st, d) = <<>> THEN << [t |-> <<>>, p |-> <<>>, r |-> <<>>] >>
  ELSE JoinTrips(st, d)

\* COUNT(*) in place of COUNT(t.id): the all-NULL row is counted too
SqlCountTrips_CountStar(rows) == Len(rows)

\* COUNT(t.id): the rows whose trip is not NULL
SqlCountTrips(rows) == Len(SelectSeq(rows, LAMBDA x : x.t # <<>>))

\* SUM(p.amount) behind an inner join on ratings: unrated trips drop out
SqlSumAmount_RatedOnly(rows) ==
  LET ps == SelectSeq(rows, LAMBDA x : x.p # <<>> /\ x.r # <<>>)
  IN  IF ps = <<>> THEN <<>>
      ELSE << SeqSum([i \in 1..Len(ps) |-> ps[i].p[1].amount]) >>

\* SUM(p.amount): NULL over no non-NULL value
SqlSumAmount(rows) ==
  LET ps == SelectSeq(rows, LAMBDA x : x.p # <<>>)
  IN  IF ps = <<>> THEN <<>>
      ELSE << SeqSum([i \in 1..Len(ps) |-> ps[i].p[1].amount]) >>

\* AVG(r.rating_value) of a DECIMAL(3,2) column: a DECIMAL with four more
\* fraction digits (millionths), NULL over no non-NULL value
SqlAvgRating(rows) ==
  LET rs == SelectSeq(rows, LAMBDA x : x.r # <<>>)
  IN  IF rs = <<>> THEN <<>>
      ELSE << MeanMicro(SeqSum([i \in 1..Len(rs) |-> rs[i].r[1].rating_value]), Len(rs)) >>

\* AVG(CASE WHEN r.rating_value > 0 THEN r.rating_value END)
SqlAvgPositiveRating(rows) ==
  SqlAvgRating(SelectSeq(rows, LAMBDA x : x.r # <<>> /\ x.r[1].rating_value > 0))

\* JSON_ARRAYAGG(JSON_OBJECT('trip_id', t.trip_id, ..., 'amount',
\* COALESCE(p.amount, 0), ...)): one object per joined row
JsonTripObject(x) ==
  [ trip_id        |-> IF x.t = <<>> THEN NULL ELSE x.t[1].trip_id,
    start_location |-> IF x.t = <<>> THEN NULL ELSE x.t[1].start_location,
    end_location   |-> IF x.t = <<>> THEN NULL ELSE x.t[1].end_location,
    trip_date      |-> IF x.t = <<>> THEN NULL
                       ELSE [type |-> "string", v |-> x.t[1].trip_date.v],
    amount         |-> IF x.p = <<>> THEN 0 ELSE x.p[1].amount,
    rating_value   |-> IF x.r = <<>> THEN 0 ELSE x.r[1].rating_value,
    comment        |-> IF x.r = <<>> THEN "" ELSE x.r[1].comment ]

JsonArrayAgg(rows) == [i \in 1..Len(rows) |-> JsonTripObject(rows[i])]

\* ------------------------------------------------------------------------
\* Outcomes of a call
\* ------------------------------------------------------------------------
Ok(v) == [kind |-> "ok", value |-> v]
\* a thrown `new Error(message)`
Err(msg) == [kind |-> "error", class |-> "Error", message |-> msg]

\* mean of the rating_value > 0 entries of a trip-detail list, 0 if none:
\* validRatings.reduce(...) / validRatings.length
MeanOfValidRatings(tripDetails) ==
  LET valid == SelectSeq(tripDetails, LAMBDA td : td.rating_value > 0)
  IN  IF Len(valid) > 0
      THEN Frac(SeqSum([i \in 1..Len(valid) |-> valid[i].rating_value]), Len(valid))
      ELSE Frac(0, 1)

\* the JavaScript number a quotient of hundredths evaluates to
JsNumber(f) == MeanMicro(f.num, f.den)

\* Number(x.toFixed(2)): the nearest hundredth
ToFixed2(f) == MicroPerCenti * RoundDiv(f.num, f.den)

\* ------------------------------------------------------------------------
\* DatabaseService (mysql2): the two original strategies
\* ------------------------------------------------------------------------
DbUnoptimized(st, d) ==
  LET rows == JoinDriver(st, d)
  IN  IF rows = <<>> THEN Err("Driver not found")
      ELSE LET drv == DriverById(st, d)[1]
           IN  Ok([ driver_id       |-> drv.driver_id,
                    driver_name     |-> drv.driver_name,
                    phone_number    |-> drv.phone_number,
                    onboarding_date |-> drv.onboarding_date,
                    total_trips     |-> SqlCountTrips(rows),
                    total_earnings  |-> Coalesce(SqlSumAmount(rows), 0),
                    average_rating  |-> Coalesce(SqlAvgRating(rows), 0),
                    trips           |-> JsonArrayAgg(rows) ])

\* SELECT ... FROM payments WHERE trip_id IN (tripIds), skipped when empty
PaymentsByTripIds(st, tripIds) ==
  IF Len(tripIds) > 0
  THEN SelectSeq(st.payments, LAMBDA p : p.trip_id \in Range(tripIds))
  ELSE <<>>

RatingsByTripIds(st, tripIds) ==
  IF Len(tripIds) > 0
  THEN SelectSeq(st.ratings, LAMBDA r : r.trip_id \in Range(tripIds))
  ELSE <<>>

FindByTrip_First(rows, tid) == IF rows = <<>> THEN <<>> ELSE << rows[1] >>
\* payments.find(p => p.trip_id === trip.trip_id): the first match or none
FindByTrip(rows, tid) ==
  LET m == SelectSeq(rows, LAMBDA x : x.trip_id = tid)
  IN  IF m = <<>> THEN <<>> ELSE << m[1] >>

\* "Combine the data"
MergeTripDetails(trips, payments, ratings) ==
  [i \in 1..Len(trips) |->
     LET payment == FindByTrip(payments, trips[i].trip_id)
         rating  == FindByTrip(ratings, trips[i].trip_id)
     IN  [ trip_id        |-> trips[i].trip_id,
           start_location |-> trips[i].start_location,
           end_location   |-> trips[i].end_location,
           trip_date      |-> trips[i].trip_date,
           amount         |-> IF payment # <<>> THEN payment[1].amount ELSE 0,
           rating_value   |-> IF rating # <<>> THEN rating[1].rating_value ELSE 0,
           comment        |-> IF rating # <<>> THEN rating[1].comment ELSE "" ]]

FanOutAnalytics(drv, trips, payments, ratings) ==
  LET tripDetails == MergeTripDetails(trips, payments, ratings)
  IN  [ driver_id       |-> drv.driver_id,
        driver_name     |-> drv.driver_name,
        phone_number    |-> drv.phone_number,
        onboarding_date |-> drv.onboarding_date,
        total_trips     |-> Len(trips),
        total_earnings  |-> SeqSum([i \in 1..Len(tripDetails) |-> tripDetails[i].amount]),
        average_rating  |-> JsNumber(MeanOfValidRatings(tripDetails)),
        trips           |-> tripDetails ]

DbOptimized(st, d) ==
  IF DriverById(st, d) = <<>> THEN Err("Driver not found")
  ELSE LET trips   == TripsOfDriver(st, d)
           tripIds == [i \in 1..Len(trips) |-> trips[i].trip_id]
       IN  Ok(FanOutAnalytics(DriverById(st, d)[1], trips,
                              PaymentsByTripIds(st, tripIds),
                              RatingsByTripIds(st, tripIds)))

\* ------------------------------------------------------------------------
\* TripAnalyticsService (Prisma): the two current strategies
\* ------------------------------------------------------------------------
\* how the store orders rows of equal trip_date: ORDER BY trip_date DESC
\* leaves it open
TieBreaks == {"asc", "desc"}

Precedes(a, b, tb) ==
  \/ a.trip_date.v > b.trip_date.v
  \/ /\ a.trip_date.v = b.trip_date.v
     /\ IF tb = "asc" THEN a.trip_id < b.trip_id ELSE a.trip_id > b.trip_id

\* orderBy: { trip_date: 'desc' }
OrderByTripDateDesc(rows, tb) ==
  LET S == Range(rows)
      pos(t) == 1 + Cardinality({ u \in S : Precedes(u, t, tb) })
  IN  [i \in 1..Len(rows) |-> CHOOSE t \in S : pos(t) = i]

Take_All(rows, n) == rows
\* take: n
Take(rows, n) == SubSeq(rows, 1, IF Len(rows) < n THEN Len(rows) ELSE n)

\* prisma.trip.findMany({ where: { driver_id }, select: { ..., payment,
\* rating }, orderBy: { trip_date: 'desc' }, take: 50 })
FindManyTrips(st, d, tb) ==
  LET T == Take(OrderByTripDateDesc(TripsOfDriver(st, d), tb), TakeLimit)
  IN  [i \in 1..Len(T) |->
         [ id             |-> T[i].trip_id,
           start_location |-> T[i].start_location,
           end_location   |-> T[i].end_location,
           trip_date      |-> T[i].trip_date,
           payment        |-> Take(PaymentsOfTrip(st, T[i].trip_id), 1),
           rating         |-> Take(RatingsOfTrip(st, T[i].trip_id), 1) ]]

\* "Transform trips to match DTO format"
TransformTrips(trips) ==
  [i \in 1..Len(trips) |->
     [ trip_id        |-> trips[i].id,
       start_location |-> trips[i].start_location,
       end_location   |-> trips[i].end_location,
       trip_date      |-> trips[i].trip_date,
       amount         |-> IF trips[i].payment = <<>> THEN 0 ELSE trips[i].payment[1].amount,
       rating_value   |-> IF trips[i].rating = <<>> THEN 0
                          ELSE trips[i].rating[1].rating_value,
       comment        |-> IF trips[i].rating = <<>> THEN "" ELSE trips[i].rating[1].comment ]]

\* the aggregate as it was before any trip was stored
AggregateByDriver_Stale(st, d) ==
  LET drv == DriverById(st, d)
  IN  IF drv = <<>> THEN <<>>
      ELSE << [ driver_id       |-> drv[1].driver_id,
                driver_name     |-> drv[1].driver_name,
                phone_number    |-> drv[1].phone_number,
                onboarding_date |-> drv[1].onboarding_date,
                total_trips     |-> 0,
                total_earnings  |-> 0,
                average_rating  |-> 0 ] >>

\* the aggregate query of the unoptimized path: grouped by driver, so no row
\* for a driver that does not exist
AggregateByDriver(st, d) ==
  LET rows == JoinDriver(st, d)
  IN  IF rows = <<>> THEN <<>>
      ELSE LET drv == DriverById(st, d)[1]
           IN  << [ driver_id       |-> drv.driver_id,
                    driver_name     |-> drv.driver_name,
                    phone_number    |-> drv.phone_number,
                    onboarding_date |-> drv.onboarding_date,
                    total_trips     |-> SqlCountTrips(rows),
                    total_earnings  |-> Coalesce(SqlSumAmount(rows), 0),
                    average_rating  |-> Coalesce(SqlAvgRating(rows), 0) ] >>

\* the aggregate query of the cached path: FROM trips t ..., no GROUP BY, so
\* always exactly one row
StatsQuery(st, d) ==
  LET rows == JoinTrips(st, d)
  IN  << [ total_trips    |-> SqlCountTrips(rows),
           total_earnings |-> Coalesce(SqlSumAmount(rows), 0),
           average_rating |-> Coalesce(SqlAvgPositiveRating(rows), 0),
           total_ratings  |-> Len(SelectSeq(rows,
                                LAMBDA x : x.r # <<>> /\ x.r[1].rating_value > 0)) ] >>

\* the DriverAnalyticsDto both paths assemble: the header and the two totals
\* from the queries, average_rating recomputed from the fetched trip details
BuildAnalytics(header, stats, trips) ==
  LET tripDetails == TransformTrips(trips)
  IN  [ driver_id       |-> header.driver_id,
        driver_name     |-> header.driver_name,
        phone_number    |-> header.phone_number,
        onboarding_date |-> header.onboarding_date,
        total_trips     |-> stats.total_trips,
        total_earnings  |-> stats.total_earnings,
        average_rating  |-> ToFixed2(MeanOfValidRatings(tripDetails)),
        trips           |-> tripDetails ]

SvcUnoptimized(st, d, tb) ==
  LET result == AggregateByDriver(st, d)
  IN  IF Len(result) = 0 THEN Err("Driver with ID ${driverId} not found")
      ELSE Ok(BuildAnalytics(result[1], result[1], FindManyTrips(st, d, tb)))

\* getDriverAnalytics past the cache lookup, up to the cache write
SvcOptimizedCompute(st, d, tb) ==
  LET driver == DriverById(st, d)
  IN  IF driver = <<>> THEN Err("Driver with ID ${driverId} not found")
      ELSE Ok(BuildAnalytics(driver[1], StatsQuery(st, d)[1], FindManyTrips(st, d, tb)))

\* ------------------------------------------------------------------------
\* The HTTP boundary: DriverIdParamDto, ValidationPipe, Number(params.driverId)
\* ------------------------------------------------------------------------
Digits == <<"0", "1", "2", "3", "4", "5", "6", "7", "8", "9">>
IsDigit(c) == \E i \in 1..Len(Digits) : Digits[i] = c
DigitValue(c) == (CHOOSE i \in 1..Len(Digits) : Digits[i] = c) - 1
AllDigits(s) == \A i \in 1..Len(s) : IsDigit(s[i])

HasSign(s) == Len(s) > 0 /\ s[1] \in {"+", "-"}
Unsigned(s) == IF HasSign(s) THEN Tail(s) ELSE s
DotAt(s) == { i \in 1..Len(s) : s[i] = "." }

\* @IsNumberString({}): /^[+-]?([0-9]*[.])?[0-9]+$/ on the path parameter
IsNumberString(s) ==
  LET u == Unsigned(s)
  IN  \/ Len(u) > 0 /\ AllDigits(u)
      \/ \E i \in DotAt(u) :
            /\ AllDigits(SubSeq(u, 1, i - 1))
            /\ i < Len(u)
            /\ AllDigits(SubSeq(u, i + 1, Len(u)))

RECURSIVE DigitsValue(_)
DigitsValue(s) ==
  IF s = <<>> THEN 0 ELSE 10 * DigitsValue(SubSeq(s, 1, Len(s) - 1)) + DigitValue(s[Len(s)])

RECURSIVE Pow10(_)
Pow10(n) == IF n = 0 THEN 1 ELSE 10 * Pow10(n - 1)

RECURSIVE Gcd(_, _)
Gcd(a, b) == IF b = 0 THEN a ELSE Gcd(b, a % b)

\* a JavaScript number as the reduced fraction num/den
Num(n, d) == LET g == Gcd(Abs(n), d) IN [num |-> n \div g, den |-> d \div g]
IntNum(n) == Num(n, 1)
IsInteger(x) == x.den = 1

\* Number(s) of a string that passed IsNumberString
NumberOf(s) ==
  LET u    == Unsigned(s)
      sign == IF HasSign(s) /\ s[1] = "-" THEN -1 ELSE 1
      dot  == IF DotAt(u) = {} THEN Len(u) + 1 ELSE CHOOSE i \in DotAt(u) : TRUE
      whole == SubSeq(u, 1, dot - 1)
      frac  == SubSeq(u, dot + 1, Len(u))
  IN  Num(sign * (DigitsValue(whole) * Pow10(Len(frac)) + DigitsValue(frac)), Pow10(Len(frac)))

\* path parameters a client sends
RawParams ==
  { <<"a", "b", "c">>, <<"0">>, <<"-", "1">>, <<"1", ".", "5">>,
    <<"1">>, <<"3">> }

\* ------------------------------------------------------------------------
\* RedisService and RedisMonitorService
\* ------------------------------------------------------------------------
\* JSON.stringify: a Date becomes its ISO string, everything else is kept
DateToJson(x) == [type |-> "string", v |-> x.v]

JsonStringify(a) ==
  [json |-> [a EXCEPT !.onboarding_date = DateToJson(@),
                      !.trips = [i \in 1..Len(@) |->
                                   [@[i] EXCEPT !.trip_date = DateToJson(@)]]]]

\* JSON.parse gives back what the text holds: the strings stay strings
JsonParse(text) == text.json

\* a cache key that leaves the driver id out
DriverCacheKey_Shared(n) == <<"driver", [num |-> 0, den |-> 1]>>

\* `driver:${driverId}` (driverId a JavaScript number)
DriverCacheKey(n) == <<"driver", n>>

\* redis.setex(key, ttlSeconds, serializedValue)
RedisSetex(c, key, ttl, text) ==
  [k \in DOMAIN c \cup {key} |-> IF k = key THEN [text |-> text, ttl |-> ttl] ELSE c[k]]

\* RedisService.get without its try/catch: a failed read is thrown
RedisServiceGet_Rethrows(c, key, up) ==
  [ threw |-> ~up,
    value |-> IF up /\ key \in DOMAIN c THEN << JsonParse(c[key].text) >> ELSE <<>> ]

\* RedisService.get: the parsed value, null for a missing key and for a
\* failed read alike (`up` is whether Redis answers); it never throws
RedisServiceGet(c, key, up) ==
  [ threw |-> FALSE,
    value |-> IF up /\ key \in DOMAIN c THEN << JsonParse(c[key].text) >> ELSE <<>> ]

\* RedisService.set storing without an expiry
RedisServiceSet_NoExpiry(c, key, value, ttl, up) ==
  [ threw |-> FALSE,
    cache |-> IF up THEN RedisSetex(c, key, 0, JsonStringify(value)) ELSE c ]

\* RedisService.set: the write, dropped when it fails; it never throws
RedisServiceSet(c, key, value, ttl, up) ==
  [ threw |-> FALSE,
    cache |-> IF up THEN RedisSetex(c, key, ttl, JsonStringify(value)) ELSE c ]

\* the time a key was written, kept beside the entry
Stamp(f, key, t) == [k \in DOMAIN f \cup {key} |-> IF k = key THEN t ELSE f[k]]

\* the key's TTL elapses
RedisExpire(c, key) == [k \in DOMAIN c \ {key} |-> c[k]]

EmptyCache == [k \in {} |-> 0]

\* RedisMonitorService.metrics (the response-time fields are left out)
InitMetrics == [hits |-> 0, misses |-> 0, totalRequests |-> 0, hitRate |-> Frac(0, 1)]

updateMetrics(m) ==
  [m EXCEPT !.hitRate = IF m.totalRequests > 0
                        THEN Frac(m.hits * 100, m.totalRequests)
                        ELSE Frac(0, 1)]

\* recordMiss without its totalRequests++
recordMiss_Uncounted(m) == updateMetrics([m EXCEPT !.misses = @ + 1])

recordHit(m) == updateMetrics([m EXCEPT !.hits = @ + 1, !.totalRequests = @ + 1])
recordMiss(m) == updateMetrics([m EXCEPT !.misses = @ + 1, !.totalRequests = @ + 1])

\* ------------------------------------------------------------------------
\* State
\* ------------------------------------------------------------------------
VARIABLES
  store,     \* the four relations
  cache,     \* Redis: key -> [text, ttl]
  metrics,   \* RedisMonitorService.metrics
  calls,     \* calls started so far
  last,      \* the last completed direct call: strategy, driver id, outcome
  reqs,      \* the requests in flight, one per slot
  resp,      \* the last response given to a request
  clock      \* the time in seconds, when each key was last written, when each
             \* trip was inserted, and the ticks taken

vars == <<store, cache, metrics, calls, last, reqs, resp, clock>>

SingleQuery == {"DbUnoptimized", "SvcUnoptimized"}
FanOut == {"DbOptimized", "SvcCached"}

NoCall == [strategy |-> "none"]

\* requests served at a time
Slots == 1..MaxReqs
Idle == [pc |-> "idle"]
NoResponse == [entry |-> "none"]
\* the slots of concurrent getDriverAnalytics calls: one more than Slots
RaceSlots == 1..(MaxReqs + 1)

ClockStart == [now |-> 0, setAt |-> [k \in {} |-> 0], changed |-> <<>>, ticks |-> 0]

\* ------------------------------------------------------------------------
\* One direct call of one of the four strategies against a generated store
\* ------------------------------------------------------------------------
InitAgg ==
  /\ store \in StoreFamily
  /\ cache = EmptyCache
  /\ metrics = InitMetrics
  /\ calls = 0
  /\ last = NoCall
  /\ reqs = [r \in Slots |-> Idle]
  /\ resp = NoResponse
  /\ clock = ClockStart

Completed(s, d, tb, out) ==
  [strategy |-> s, driverId |-> d, tieBreak |-> tb, outcome |-> out]

CallDbUnoptimized(d) ==
  /\ last = NoCall
  /\ last' = Completed("DbUnoptimized", d, "asc", DbUnoptimized(store, d))
  /\ UNCHANGED <<store, cache, metrics, calls, reqs, resp, clock>>

CallDbOptimized(d) ==
  /\ last = NoCall
  /\ last' = Completed("DbOptimized", d, "asc", DbOptimized(store, d))
  /\ UNCHANGED <<store, cache, metrics, calls, reqs, resp, clock>>

CallSvcUnoptimized(d, tb) ==
  /\ last = NoCall
  /\ last' = Completed("SvcUnoptimized", d, tb, SvcUnoptimized(store, d, tb))
  /\ UNCHANGED <<store, cache, metrics, calls, reqs, resp, clock>>

\* getDriverAnalytics with the cache and the store both answering
CallSvcCached(d, tb) ==
  /\ last = NoCall
  /\ LET key    == DriverCacheKey(IntNum(d))
         cached == RedisServiceGet(cache, key, TRUE).value
         out    == SvcOptimizedCompute(store, d, tb)
     IN  IF cached # <<>>
         THEN /\ metrics' = recordHit(metrics)
              /\ last' = Completed("SvcCached", d, tb, Ok(cached[1]))
              /\ cache' = cache
         ELSE IF out.kind = "ok"
         THEN /\ cache' = RedisServiceSet(cache, key, out.value, CacheTTL, TRUE).cache
              /\ metrics' = recordMiss(metrics)
              /\ last' = Completed("SvcCached", d, tb, out)
         ELSE /\ last' = Completed("SvcCached", d, tb, out)
              /\ UNCHANGED <<cache, metrics>>
  /\ UNCHANGED <<store, calls, reqs, resp, clock>>

NextAgg ==
  \/ \E d \in RequestIds : CallDbUnoptimized(d)
  \/ \E d \in RequestIds : CallDbOptimized(d)
  \/ \E d \in RequestIds, tb \in TieBreaks : CallSvcUnoptimized(d, tb)
  \/ \E d \in RequestIds, tb \in TieBreaks : CallSvcCached(d, tb)

SpecAgg == InitAgg /\ [][NextAgg]_vars


\* ------------------------------------------------------------------------
\* The running service: requests through the controller and direct calls of
\* DatabaseService, each await a step of its own, with reads of the store
\* and of Redis that can fail
\* ------------------------------------------------------------------------
HttpEntries == {"cached", "unoptimized"}

\* a rejected mysql / Prisma query
StoreFailure == [kind |-> "error", class |-> "StoreError", message |-> "query failed"]
\* a rejected Redis command
RedisFailure == [kind |-> "error", class |-> "RedisError", message |-> "redis failed"]
\* Prisma refusing `where: { id }` for an id that is not an Int
PrismaValidation ==
  [kind |-> "error", class |-> "PrismaClientValidationError",
   message |-> "Invalid value provided. Expected Int"]
\* ValidationPipe refusing the DTO
BadRequest ==
  [kind |-> "error", class |-> "BadRequestException",
   message |-> "Driver ID must be a valid number"]

\* the catch block turned into a best-effort answer from what was read
Rethrow_PartialResult(error, reads) ==
  IF reads # <<>>
  THEN Ok([ driver_id |-> reads[1].driver_id, driver_name |-> reads[1].driver_name,
            phone_number |-> reads[1].phone_number,
            onboarding_date |-> reads[1].onboarding_date,
            total_trips |-> 0, total_earnings |-> 0, average_rating |-> 0,
            trips |-> <<>> ])
  ELSE error

\* catch (error) { this.logger.error(...); throw error; } of both methods of
\* TripAnalyticsService
Rethrow(error, reads) == error

\* what the caller of the controller sees: the handlers let every error
\* through, a BadRequestException carries its status, any other error is
\* answered as an internal error
HttpResponse(outcome) ==
  IF outcome.kind = "ok" THEN [status |-> 200, message |-> "OK"]
  ELSE IF outcome.class = "BadRequestException"
  THEN [status |-> 400, message |-> outcome.message]
  ELSE [status |-> 500, message |-> "Internal server error"]

\* the store of the running service: n trips of driver 1, paid and rated
\* (none when the service starts); driver 2 has none
SpecStore(n) == MkStore([i \in 1..n |-> [driver |-> 1, kind |-> BulkKind]], FALSE)

Begin(entry, raw, n, pc) ==
  [pc |-> pc, entry |-> entry, raw |-> raw, driverId |-> n, ops |-> <<>>, reads |-> <<>>]

Response(q, ops, reads, outcome) ==
  [ entry    |-> q.entry,
    raw      |-> q.raw,
    driverId |-> << q.driverId >>,
    ops      |-> ops,
    reads    |-> reads,
    outcome  |-> outcome,
    at       |-> clock.now,
    http     |-> IF q.entry \in HttpEntries THEN << HttpResponse(outcome) >> ELSE <<>> ]

\* the answer to a request the ValidationPipe stopped
Rejected(entry, raw) ==
  [ entry |-> entry, raw |-> raw, driverId |-> <<>>, ops |-> <<>>, reads |-> <<>>,
    outcome |-> BadRequest, at |-> clock.now,
    http |-> << HttpResponse(BadRequest) >> ]

CacheOp(name, key, ttl, res) == [op |-> name, key |-> key, ttl |-> ttl, res |-> res]
DbOp(name, res) == [op |-> name, key |-> <<>>, ttl |-> 0, res |-> res]

Complete(r, ops, reads, outcome) ==
  /\ resp' = Response(reqs[r], ops, reads, outcome)
  /\ reqs' = [reqs EXCEPT ![r] = Idle]

Proceed(r, pc, ops, reads) ==
  /\ reqs' = [reqs EXCEPT ![r] = [@ EXCEPT !.pc = pc, !.ops = ops, !.reads = reads]]
  /\ resp' = resp

Init ==
  /\ store = SpecStore(0)
  /\ cache = EmptyCache
  /\ metrics = InitMetrics
  /\ calls = 0
  /\ last = NoCall
  /\ reqs = [r \in Slots |-> Idle]
  /\ resp = NoResponse
  /\ clock = ClockStart

\* GET /api/v1/drivers/:driverId/analytics through the ValidationPipe
Accept(r, entry, raw, pc) ==
  /\ reqs[r] = Idle
  /\ calls < MaxCalls
  /\ calls' = calls + 1
  /\ IF IsNumberString(raw)
     THEN /\ reqs' = [reqs EXCEPT ![r] = Begin(entry, raw, NumberOf(raw), pc)]
          /\ resp' = resp
     ELSE /\ resp' = Rejected(entry, raw)
          /\ reqs' = reqs
  /\ UNCHANGED <<store, cache, metrics, last, clock>>

HttpGetAnalytics(r, raw) == Accept(r, "cached", raw, "cacheGet")
HttpGetUnoptimized(r, raw) == Accept(r, "unoptimized", raw, "aggregate")

\* the integer a driver id denotes, or an id no row has
RowId(n) == IF IsInteger(n) THEN n.num ELSE 0

\* ---- TripAnalyticsService.getDriverAnalytics -----------------------------
\* const cachedData = await this.redisService.get(cacheKey)
CachedCacheGet(r, up) ==
  /\ reqs[r].pc = "cacheGet"
  /\ LET q   == reqs[r]
         key == DriverCacheKey(q.driverId)
         got == RedisServiceGet(cache, key, up)
         res == IF ~up THEN "fail" ELSE IF key \in DOMAIN cache THEN "hit" ELSE "miss"
         ops == Append(q.ops, CacheOp("cache.get", key, 0, res))
     IN  IF got.threw
         THEN /\ Complete(r, ops, q.reads, Rethrow(RedisFailure, q.reads))
              /\ metrics' = metrics
         ELSE IF got.value # <<>>
         THEN /\ metrics' = recordHit(metrics)
              /\ Complete(r, ops, q.reads, Ok(got.value[1]))
         ELSE /\ Proceed(r, "findDriver", ops, q.reads)
              /\ metrics' = metrics
  /\ UNCHANGED <<store, cache, calls, last, clock>>

\* await this.prisma.driver.findUnique({ where: { id: driverId }, ... })
CachedFindDriver(r, ok) ==
  /\ reqs[r].pc = "findDriver"
  /\ LET q      == reqs[r]
         driver == DriverById(store, RowId(q.driverId))
         res    == IF ~IsInteger(q.driverId) THEN "invalid" ELSE IF ok THEN "ok" ELSE "fail"
         ops    == Append(q.ops, DbOp("db.driver.findUnique", res))
     IN  IF res = "invalid" THEN Complete(r, ops, q.reads, Rethrow(PrismaValidation, q.reads))
         ELSE IF res = "fail" THEN Complete(r, ops, q.reads, Rethrow(StoreFailure, q.reads))
         ELSE IF driver = <<>>
         THEN Complete(r, ops, q.reads,
                       Rethrow(Err("Driver with ID ${driverId} not found"), q.reads))
         ELSE Proceed(r, "stats", ops, Append(q.reads, driver[1]))
  /\ UNCHANGED <<store, cache, metrics, calls, last, clock>>

\* await this.prisma.$queryRaw`SELECT COUNT(t.id) ... WHERE t.driver_id = ...`
CachedStats(r, ok) ==
  /\ reqs[r].pc = "stats"
  /\ LET q   == reqs[r]
         ops == Append(q.ops, DbOp("db.stats.queryRaw", IF ok THEN "ok" ELSE "fail"))
     IN  IF ~ok THEN Complete(r, ops, q.reads, Rethrow(StoreFailure, q.reads))
         ELSE Proceed(r, "trips", ops,
                      Append(q.reads, StatsQuery(store, RowId(q.driverId))[1]))
  /\ UNCHANGED <<store, cache, metrics, calls, last, clock>>

\* await this.prisma.trip.findMany({ ..., take: 50 })
CachedTrips(r, ok, tb) ==
  /\ reqs[r].pc = "trips"
  /\ LET q   == reqs[r]
         ops == Append(q.ops, DbOp("db.trip.findMany", IF ok THEN "ok" ELSE "fail"))
     IN  IF ~ok THEN Complete(r, ops, q.reads, Rethrow(StoreFailure, q.reads))
         ELSE Proceed(r, "cacheSet", ops,
                      Append(q.reads, FindManyTrips(store, RowId(q.driverId), tb)))
  /\ UNCHANGED <<store, cache, metrics, calls, last, clock>>

\* await this.redisService.set(cacheKey, analytics, 300); recordMiss; return
CachedCacheSet(r, up) ==
  /\ reqs[r].pc = "cacheSet"
  /\ LET q         == reqs[r]
         key       == DriverCacheKey(q.driverId)
         analytics == BuildAnalytics(q.reads[1], q.reads[2], q.reads[3])
         set       == RedisServiceSet(cache, key, analytics, CacheTTL, up)
         ops       == Append(q.ops, CacheOp("cache.set", key, CacheTTL,
                                            IF up THEN "ok" ELSE "fail"))
     IN  /\ cache' = set.cache
         /\ IF set.threw
            THEN /\ Complete(r, ops, q.reads, Rethrow(RedisFailure, q.reads))
                 /\ metrics' = metrics
            ELSE /\ metrics' = recordMiss(metrics)
                 /\ Complete(r, ops, q.reads, Ok(analytics))
         /\ clock' = IF up THEN [clock EXCEPT !.setAt = Stamp(@, key, clock.now)]
                      ELSE clock
  /\ UNCHANGED <<store, calls, last>>

\* ---- TripAnalyticsService.getDriverAnalyticsUnoptimized ------------------
\* await this.prisma.$queryRaw`SELECT d.id ... WHERE d.id = ${driverId} GROUP BY ...`
UnoptAggregate(r, ok) ==
  /\ reqs[r].pc = "aggregate"
  /\ LET q      == reqs[r]
         result == AggregateByDriver(store, RowId(q.driverId))
         ops    == Append(q.ops, DbOp("db.aggregate.queryRaw", IF ok THEN "ok" ELSE "fail"))
     IN  IF ~ok THEN Complete(r, ops, q.reads, Rethrow(StoreFailure, q.reads))
         ELSE IF Len(result) = 0
         THEN Complete(r, ops, q.reads,
                       Rethrow(Err("Driver with ID ${driverId} not found"), q.reads))
         ELSE Proceed(r, "unoptTrips", ops, Append(q.reads, result[1]))
  /\ UNCHANGED <<store, cache, metrics, calls, last, clock>>

UnoptTrips(r, ok, tb) ==
  /\ reqs[r].pc = "unoptTrips"
  /\ LET q     == reqs[r]
         trips == FindManyTrips(store, RowId(q.driverId), tb)
         ops   == Append(q.ops, DbOp("db.trip.findMany", IF ok THEN "ok" ELSE "fail"))
     IN  IF ~ok THEN Complete(r, ops, q.reads, Rethrow(StoreFailure, q.reads))
         ELSE Complete(r, ops, Append(q.reads, trips),
                       Ok(BuildAnalytics(q.reads[1], q.reads[1], trips)))
  /\ UNCHANGED <<store, cache, metrics, calls, last, clock>>

\* ---- DatabaseService, called directly with a number ----------------------
CallDirect(r, entry, d, pc) ==
  /\ reqs[r] = Idle
  /\ calls < MaxCalls
  /\ calls' = calls + 1
  /\ reqs' = [reqs EXCEPT ![r] = Begin(entry, <<>>, IntNum(d), pc)]
  /\ UNCHANGED <<store, cache, metrics, last, resp, clock>>

StartDbOptimized(r, d) == CallDirect(r, "dbOptimized", d, "dbDriver")
StartDbUnoptimized(r, d) == CallDirect(r, "dbUnoptimized", d, "dbJoin")

TripIdsRead(trips) == [i \in 1..Len(trips) |-> trips[i].trip_id]

LookupsNeeded_Always(tripIds) == TRUE
\* if (tripIds.length > 0) { ... await this.connection.execute(...) }
LookupsNeeded(tripIds) == Len(tripIds) > 0

\* Query 1: SELECT * FROM drivers WHERE driver_id = ?
DbOptDriver(r, ok) ==
  /\ reqs[r].pc = "dbDriver"
  /\ LET q      == reqs[r]
         driver == DriverById(store, RowId(q.driverId))
         ops    == Append(q.ops, DbOp("db.drivers", IF ok THEN "ok" ELSE "fail"))
     IN  IF ~ok THEN Complete(r, ops, q.reads, StoreFailure)
         ELSE IF driver = <<>> THEN Complete(r, ops, q.reads, Err("Driver not found"))
         ELSE Proceed(r, "dbTrips", ops, Append(q.reads, driver[1]))
  /\ UNCHANGED <<store, cache, metrics, calls, last, clock>>

\* Query 2: SELECT ... FROM trips WHERE driver_id = ?; with no trips the
\* payments and ratings queries are skipped
DbOptTrips(r, ok) ==
  /\ reqs[r].pc = "dbTrips"
  /\ LET q     == reqs[r]
         trips == TripsOfDriver(store, RowId(q.driverId))
         ops   == Append(q.ops, DbOp("db.trips", IF ok THEN "ok" ELSE "fail"))
     IN  IF ~ok THEN Complete(r, ops, q.reads, StoreFailure)
         ELSE IF ~LookupsNeeded(TripIdsRead(trips))
         THEN Complete(r, ops, Append(q.reads, trips),
                       Ok(FanOutAnalytics(q.reads[1], trips, <<>>, <<>>)))
         ELSE Proceed(r, "dbPayments", ops, Append(q.reads, trips))
  /\ UNCHANGED <<store, cache, metrics, calls, last, clock>>

\* Query 3: SELECT trip_id, amount FROM payments WHERE trip_id IN (?)
DbOptPayments(r, ok) ==
  /\ reqs[r].pc = "dbPayments"
  /\ LET q   == reqs[r]
         ops == Append(q.ops, DbOp("db.payments", IF ok THEN "ok" ELSE "fail"))
     IN  IF ~ok THEN Complete(r, ops, q.reads, StoreFailure)
         ELSE Proceed(r, "dbRatings", ops,
                      Append(q.reads, PaymentsByTripIds(store, TripIdsRead(q.reads[2]))))
  /\ UNCHANGED <<store, cache, metrics, calls, last, clock>>

\* Query 4: SELECT trip_id, rating_value, comment FROM ratings WHERE trip_id IN (?)
DbOptRatings(r, ok) ==
  /\ reqs[r].pc = "dbRatings"
  /\ LET q       == reqs[r]
         ratings == RatingsByTripIds(store, TripIdsRead(q.reads[2]))
         ops     == Append(q.ops, DbOp("db.ratings", IF ok THEN "ok" ELSE "fail"))
     IN  IF ~ok THEN Complete(r, ops, q.reads, StoreFailure)
         ELSE Complete(r, ops, Append(q.reads, ratings),
                       Ok(FanOutAnalytics(q.reads[1], q.reads[2], q.reads[3], ratings)))
  /\ UNCHANGED <<store, cache, metrics, calls, last, clock>>

\* the single JOIN query of getDriverAnalyticsUnoptimized
DbUnoptJoin(r, ok) ==
  /\ reqs[r].pc = "dbJoin"
  /\ LET q   == reqs[r]
         ops == Append(q.ops, DbOp("db.join", IF ok THEN "ok" ELSE "fail"))
     IN  IF ~ok THEN Complete(r, ops, q.reads, StoreFailure)
         ELSE Complete(r, ops, q.reads, DbUnoptimized(store, RowId(q.driverId)))
  /\ UNCHANGED <<store, cache, metrics, calls, last, clock>>

\* ---- the environment -----------------------------------------------------
\* a trip of driver 1, with its payment and rating, is recorded
InsertTrip ==
  /\ Len(store.trips) < MaxSpecTrips
  /\ store' = SpecStore(Len(store.trips) + 1)
  /\ clock' = [clock EXCEPT !.changed = Append(@, clock.now)]
  /\ UNCHANGED <<cache, metrics, calls, last, reqs, resp>>

\* Redis drops an entry whose TTL has run out
ExpireKey(key) ==
  /\ key \in DOMAIN cache
  /\ cache' = RedisExpire(cache, key)
  /\ clock' = [clock EXCEPT !.setAt = RedisExpire(@, key)]
  /\ UNCHANGED <<store, metrics, calls, last, reqs, resp>>

Next ==
  \/ \E r \in Slots, raw \in RawParams : HttpGetAnalytics(r, raw)
  \/ \E r \in Slots, raw \in RawParams : HttpGetUnoptimized(r, raw)
  \/ \E r \in Slots, up \in BOOLEAN : CachedCacheGet(r, up)
  \/ \E r \in Slots, ok \in BOOLEAN : CachedFindDriver(r, ok)
  \/ \E r \in Slots, ok \in BOOLEAN : CachedStats(r, ok)
  \/ \E r \in Slots, ok \in BOOLEAN, tb \in TieBreaks : CachedTrips(r, ok, tb)
  \/ \E r \in Slots, up \in BOOLEAN : CachedCacheSet(r, up)
  \/ \E r \in Slots, ok \in BOOLEAN : UnoptAggregate(r, ok)
  \/ \E r \in Slots, ok \in BOOLEAN, tb \in TieBreaks : UnoptTrips(r, ok, tb)
  \/ \E r \in Slots, d \in RequestIds : StartDbOptimized(r, d)
  \/ \E r \in Slots, d \in RequestIds : StartDbUnoptimized(r, d)
  \/ \E r \in Slots, ok \in BOOLEAN : DbOptDriver(r, ok)
  \/ \E r \in Slots, ok \in BOOLEAN : DbOptTrips(r, ok)
  \/ \E r \in Slots, ok \in BOOLEAN : DbOptPayments(r, ok)
  \/ \E r \in Slots, ok \in BOOLEAN : DbOptRatings(r, ok)
  \/ \E r \in Slots, ok \in BOOLEAN : DbUnoptJoin(r, ok)
  \/ InsertTrip
  \/ \E key \in DOMAIN cache : ExpireKey(key)

Spec == Init /\ [][Next]_vars

\* ------------------------------------------------------------------------
\* The running service with a clock: Redis drops an entry ttl seconds after
\* it was written
\* ------------------------------------------------------------------------
\* how far the clock moves in one step: a second, or just short of the TTL
TickSteps == {1, CacheTTL - 1}

\* the entries Redis still holds at time t
Live(t) == { k \in DOMAIN cache : t < clock.setAt[k] + cache[k].ttl }

Tick(dt) ==
  /\ clock.ticks < MaxTicks
  /\ LET t == clock.now + dt
     IN  /\ cache' = [k \in Live(t) |-> cache[k]]
         /\ clock' = [clock EXCEPT !.now = t, !.ticks = @ + 1,
                                   !.setAt = [k \in Live(t) |-> @[k]]]
  /\ UNCHANGED <<store, metrics, calls, last, reqs, resp>>

\* requests for a driver that exists
KnownParams == { <<"1">> }

NextTTL ==
  \/ \E r \in Slots, raw \in KnownParams : HttpGetAnalytics(r, raw)
  \/ \E r \in Slots : CachedCacheGet(r, TRUE)
  \/ \E r \in Slots : CachedFindDriver(r, TRUE)
  \/ \E r \in Slots : CachedStats(r, TRUE)
  \/ \E r \in Slots, tb \in TieBreaks : CachedTrips(r, TRUE, tb)
  \/ \E r \in Slots : CachedCacheSet(r, TRUE)
  \/ InsertTrip
  \/ \E dt \in TickSteps : Tick(dt)

SpecTTL == Init /\ [][NextTTL]_vars

\* ------------------------------------------------------------------------
\* Two getDriverAnalytics requests for the same driver in flight at once,
\* over a store nobody mutates: Redis and the store always answer
\* ------------------------------------------------------------------------
InitRace ==
  /\ store \in { SpecStore(n) : n \in 0..(MaxSpecTrips + 1) }
  /\ cache = EmptyCache
  /\ metrics = InitMetrics
  /\ calls = 0
  /\ last = NoCall
  /\ reqs = [r \in RaceSlots |-> Idle]
  /\ resp = NoResponse
  /\ clock = ClockStart

NextRace ==
  \/ \E r \in RaceSlots, raw \in KnownParams : HttpGetAnalytics(r, raw)
  \/ \E r \in RaceSlots : CachedCacheGet(r, TRUE)
  \/ \E r \in RaceSlots : CachedFindDriver(r, TRUE)
  \/ \E r \in RaceSlots : CachedStats(r, TRUE)
  \/ \E r \in RaceSlots, tb \in TieBreaks : CachedTrips(r, TRUE, tb)
  \/ \E r \in RaceSlots : CachedCacheSet(r, TRUE)

SpecRace == InitRace /\ [][NextRace]_vars

\* the lookups a getDriverAnalyticsOptimized call has sent and still awaits:
\* `await this.connection.execute(paymentsQuery, ...)` has returned before
\* `this.connection.execute(ratingsQuery, ...)` is called
Awaited(q) ==
  CASE q.pc = "dbPayments" -> {"db.payments"}
    [] q.pc = "dbRatings"  -> {"db.ratings"}
    [] OTHER               -> {}

\* ------------------------------------------------------------------------
\* Explicit invalidation: PrismaService.invalidateDriverCache,
\* invalidateAllDriverCaches and TripAnalyticsService.clearCache
\* ------------------------------------------------------------------------
\* `driver:${driverId}:analytics`
AnalyticsCacheKey(n) == <<"driver", n, "analytics">>

\* a key as its ':'-separated segments, the driver id segment written "id"
KeySegments(key) == [i \in 1..Len(key) |-> IF i = 2 THEN "id" ELSE key[i]]

\* redis KEYS pattern: '*' matches any run of characters, ':' included
RECURSIVE GlobMatch(_, _)
GlobMatch(p, k) ==
  IF p = <<>> THEN k = <<>>
  ELSE IF p[1] = "*"
  THEN GlobMatch(Tail(p), k) \/ (k # <<>> /\ GlobMatch(p, Tail(k)))
  ELSE k # <<>> /\ p[1] = k[1] /\ GlobMatch(Tail(p), Tail(k))

\* await this.redis.del(key)
RedisServiceDel(c, key) == [k \in DOMAIN c \ {key} |-> c[k]]

\* keys = await this.redis.keys(pattern); if (keys.length > 0) this.redis.del(...keys)
RedisServiceDelPattern(c, pattern) ==
  [k \in { x \in DOMAIN c : ~GlobMatch(pattern, KeySegments(x)) } |-> c[k]]

\* the patterns GET /drivers/cache/clear?pattern= is called with
ClearPatterns == { <<"driver", "*">>, <<"*">>, <<"driver", "*", "analytics">> }

\* a completed invalidation: the drivers it was to invalidate and the cache
\* as it left it
Invalidate(op, drivers, left) ==
  /\ cache' = left
  /\ last' = [strategy |-> op, drivers |-> drivers, cache |-> left]
  /\ UNCHANGED <<store, metrics, calls, reqs, resp, clock>>

InvalidateDriverCache(d) ==
  Invalidate("invalidateDriverCache", {d},
             RedisServiceDel(cache, AnalyticsCacheKey(IntNum(d))))

InvalidateAllDriverCaches ==
  Invalidate("invalidateAllDriverCaches", DriverIds,
             RedisServiceDelPattern(cache, <<"driver", "*", "analytics">>))

ClearCache(pattern) ==
  Invalidate("clearCache",
             { d \in DriverIds : GlobMatch(pattern, KeySegments(DriverCacheKey(IntNum(d)))) },
             RedisServiceDelPattern(cache, pattern))

NextInv ==
  \/ \E r \in Slots, raw \in KnownParams : HttpGetAnalytics(r, raw)
  \/ \E r \in Slots : CachedCacheGet(r, TRUE)
  \/ \E r \in Slots : CachedFindDriver(r, TRUE)
  \/ \E r \in Slots : CachedStats(r, TRUE)
  \/ \E r \in Slots, tb \in TieBreaks : CachedTrips(r, TRUE, tb)
  \/ \E r \in Slots : CachedCacheSet(r, TRUE)
  \/ InsertTrip
  \/ \E d \in DriverIds : InvalidateDriverCache(d)
  \/ InvalidateAllDriverCaches
  \/ \E pattern \in ClearPatterns : ClearCache(pattern)

SpecInv == Init /\ [][NextInv]_vars

\* ------------------------------------------------------------------------
\* Reads that are never answered: no await of either strategy is raced
\* against a timer, the PrismaClient is built without a query timeout and
\* the Redis client without a commandTimeout
\* ------------------------------------------------------------------------
\* the read request r awaits is never answered: its promise never settles,
\* so no continuation of r runs again
ReadHangs(r) ==
  /\ reqs[r].pc \notin {"idle", "hung"}
  /\ reqs' = [reqs EXCEPT ![r].pc = "hung"]
  /\ UNCHANGED <<store, cache, metrics, calls, last, resp, clock>>

NextHang ==
  \/ \E r \in Slots, raw \in KnownParams : HttpGetAnalytics(r, raw)
  \/ \E r \in Slots, raw \in KnownParams : HttpGetUnoptimized(r, raw)
  \/ \E r \in Slots : CachedCacheGet(r, TRUE)
  \/ \E r \in Slots : CachedFindDriver(r, TRUE)
  \/ \E r \in Slots : CachedStats(r, TRUE)
  \/ \E r \in Slots, tb \in TieBreaks : CachedTrips(r, TRUE, tb)
  \/ \E r \in Slots : CachedCacheSet(r, TRUE)
  \/ \E r \in Slots : UnoptAggregate(r, TRUE)
  \/ \E r \in Slots, tb \in TieBreaks : UnoptTrips(r, TRUE, tb)
  \/ InsertTrip
  \/ \E r \in Slots : ReadHangs(r)

\* the event loop runs every continuation whose awaited promise has settled
SpecHang == Init /\ [][NextHang]_vars /\ WF_vars(NextHang)

\* ------------------------------------------------------------------------
\* PerformanceMonitoringInterceptor and MonitoringService: the endpoint
\* metrics and the endpoint logs kept in Redis
\* ------------------------------------------------------------------------
\* a JavaScript boolean, a string, undefined
Bool(b) == [bool |-> b]
Str(s) == [str |-> s]
Undefined == [undefined |-> TRUE]

\* `isCached ? 1 : 0`, `isError ? ... : ...`: true and every non-empty string
Truthy(x) ==
  IF "bool" \in DOMAIN x THEN x.bool
  ELSE IF "str" \in DOMAIN x THEN x.str # ""
  ELSE FALSE

\* request.url as its path segments
Urls ==
  { <<"drivers", "1", "analytics">>,
    <<"drivers", "1", "analytics", "unoptimized">>,
    <<"drivers", "health">> }

determineEndpointType(url) ==
  IF "unoptimized" \in Range(url) THEN "unoptimized"
  ELSE IF "analytics" \in Range(url) THEN "optimized"
  ELSE IF Range(url) \cap {"locations", "revenue", "ranking"} # {} THEN "analytics"
  ELSE "other"

\* `endpoint:${endpoint}:logs`, `endpoint:${endpoint}:metrics`
EndpointKey(endpoint, kind) == <<"endpoint", endpoint, kind>>

LogCap == 1000
LogTTL == 86400

categorizePerformance(responseTime) ==
  IF responseTime > 5000 THEN "CRITICAL"
  ELSE IF responseTime > 2000 THEN "POOR"
  ELSE IF responseTime > 1000 THEN "SLOW"
  ELSE IF responseTime > 500 THEN "MODERATE"
  ELSE IF responseTime > 200 THEN "GOOD"
  ELSE "EXCELLENT"

\* the PerformanceLog of recordPerformanceLog; the timestamp is the number
\* of the recording
PerformanceLog(seq, a) ==
  [ timestamp           |-> seq,
    endpoint            |-> a.endpoint,
    url                 |-> a.url,
    method              |-> "GET",
    responseTimeMs      |-> a.responseTime,
    performanceCategory |-> categorizePerformance(a.responseTime),
    status              |-> IF Truthy(a.isError) THEN "error" ELSE "success",
    isCached            |-> a.isCached,
    error               |-> a.error ]

\* logs.push(log); if (logs.length > 1000) logs.splice(0, logs.length - 1000)
PushLog(logs, log) ==
  LET all == Append(logs, log)
  IN  IF Len(all) > LogCap THEN SubSeq(all, Len(all) - LogCap + 1, Len(all)) ELSE all

\* getEndpointMetrics when the key holds nothing
NoMetrics(endpoint) ==
  [ endpoint            |-> endpoint,
    totalRequests       |-> 0,
    averageResponseTime |-> IntNum(0),
    minResponseTime     |-> 0,
    maxResponseTime     |-> 0,
    slowRequestCount    |-> 0,
    errorCount          |-> 0,
    performanceTrend    |-> "stable",
    cacheHitRate        |-> IntNum(0),
    cacheMissRate       |-> IntNum(0) ]

calculateNewAverage(currentAvg, currentCount, newValue) ==
  IF currentCount = 0 THEN IntNum(newValue)
  ELSE Num(currentAvg.num * currentCount + newValue * currentAvg.den,
           currentAvg.den * (currentCount + 1))

calculatePerformanceTrend(m, newResponseTime) ==
  LET avg == m.averageResponseTime
  IN  IF m.totalRequests < 2 THEN "stable"
      ELSE IF 10 * Abs(newResponseTime * avg.den - avg.num) < avg.num THEN "stable"
      ELSE IF newResponseTime * avg.den < avg.num THEN "improving"
      ELSE "degrading"

\* the hits the stored rate stands for: Math.round(currentHitRate * totalRequests)
ImpliedHits(m) == RoundDiv(m.cacheHitRate.num * m.totalRequests, m.cacheHitRate.den)

calculateCacheHitRate(m, isCached) ==
  IF m.totalRequests = 0 THEN IntNum(0)
  ELSE Num(ImpliedHits(m) + (IF Truthy(isCached) THEN 1 ELSE 0), m.totalRequests + 1)

calculateCacheMissRate(m, isCached) ==
  LET h == calculateCacheHitRate(m, isCached) IN Num(h.den - h.num, h.den)

\* newMetrics of updateEndpointMetrics (lastRequestTime is left out)
NewMetrics(m, a) ==
  [ endpoint            |-> a.endpoint,
    totalRequests       |-> m.totalRequests + 1,
    averageResponseTime |-> calculateNewAverage(m.averageResponseTime, m.totalRequests,
                                                a.responseTime),
    minResponseTime     |-> Min(IF m.minResponseTime # 0 THEN m.minResponseTime
                                ELSE a.responseTime, a.responseTime),
    maxResponseTime     |-> -Min(-(IF m.maxResponseTime # 0 THEN m.maxResponseTime
                                   ELSE a.responseTime), -a.responseTime),
    slowRequestCount    |-> m.slowRequestCount + (IF a.responseTime > 1000 THEN 1 ELSE 0),
    errorCount          |-> m.errorCount + (IF Truthy(a.isError) THEN 1 ELSE 0),
    performanceTrend    |-> calculatePerformanceTrend(m, a.responseTime),
    cacheHitRate        |-> calculateCacheHitRate(m, a.isCached),
    cacheMissRate       |-> calculateCacheMissRate(m, a.isCached) ]

\* the parameters of recordEndpointRequest as the interceptor's two calls
\* bind them, position by position: (endpoint, url, method, responseTime,
\* driverId, isError, isCached = false, error)
RecordArgs(url, responseTime, isError, isCached, error) ==
  [ endpoint |-> determineEndpointType(url), url |-> url, responseTime |-> responseTime,
    isError |-> isError, isCached |-> isCached, error |-> error ]

\* tap next: recordEndpointRequest(endpoint, url, method, ms, driverId, false)
NextArgs(url, responseTime) ==
  RecordArgs(url, responseTime, Bool(FALSE), Bool(FALSE), Undefined)

\* tap error: recordEndpointRequest(endpoint, url, method, ms, driverId, true,
\* error.message)
ErrorArgs(url, responseTime, message) ==
  RecordArgs(url, responseTime, Bool(TRUE), Str(message), Undefined)

\* JSON.stringify of the logs: a property whose value is undefined is left out
StringifyLogs(logs) ==
  [json |-> [i \in 1..Len(logs) |->
               [f \in { g \in DOMAIN logs[i] :
                          ~(g \in {"isCached", "error"} /\ "undefined" \in DOMAIN logs[i][g]) }
                  |-> logs[i][f]]]]

\* (await this.redisService.get(logKey)) || []
StoredLogs(c, endpoint, up) ==
  LET got == RedisServiceGet(c, EndpointKey(endpoint, "logs"), up).value
  IN  IF got = <<>> THEN <<>> ELSE got[1]

\* MonitoringService.getEndpointMetrics
GetEndpointMetrics(c, endpoint, up) ==
  LET got == RedisServiceGet(c, EndpointKey(endpoint, "metrics"), up).value
  IN  IF got = <<>> THEN NoMetrics(endpoint) ELSE got[1]

\* logs.slice(-limit)
SliceLast(logs, limit) ==
  IF limit = 0 \/ limit >= Len(logs) THEN logs
  ELSE SubSeq(logs, Len(logs) - limit + 1, Len(logs))

EndpointTypes == {"optimized", "unoptimized", "analytics", "other"}
ReportEndpoints == {"cached-analytics", "complex-query"}
ResponseTimes == {150, 1200}
HistoryLimits == {0, 1, 2}

\* Redis after one whole recordEndpointRequest, no other running meanwhile
RecordedAlone(c, a, seq) ==
  LET logs    == PushLog(StoredLogs(c, a.endpoint, TRUE), PerformanceLog(seq, a))
      c2      == RedisSetex(c, EndpointKey(a.endpoint, "logs"), LogTTL, StringifyLogs(logs))
      metrics2 == NewMetrics(GetEndpointMetrics(c2, a.endpoint, TRUE), a)
  IN  RedisSetex(c2, EndpointKey(a.endpoint, "metrics"), LogTTL, [json |-> metrics2])

\* Redis after n requests to the cached endpoint, each answered in 150 ms
\* and recorded one after another
AfterRequests(n) ==
  LET a == NextArgs(<<"drivers", "1", "analytics">>, 150)
      m == [ NoMetrics(a.endpoint) EXCEPT
               !.totalRequests = n,
               !.averageResponseTime = IntNum(150),
               !.minResponseTime = 150,
               !.maxResponseTime = 150,
               !.cacheMissRate = IntNum(1) ]
  IN  IF n = 0 THEN EmptyCache
      ELSE RedisSetex(
             RedisSetex(EmptyCache, EndpointKey(a.endpoint, "logs"), LogTTL,
                        StringifyLogs([i \in 1..n |-> PerformanceLog(i, a)])),
             EndpointKey(a.endpoint, "metrics"), LogTTL, [json |-> m])

Recorded(n) == [e \in EndpointTypes |-> IF e = "optimized" THEN n ELSE 0]

InitMon ==
  /\ \E n \in {0, LogCap - 1} :
        /\ cache = AfterRequests(n)
        /\ calls = 0
        /\ resp = [op |-> "none", recorded |-> Recorded(n)]
  /\ store = SpecStore(0)
  /\ metrics = InitMetrics
  /\ last = NoCall
  /\ reqs = [r \in RaceSlots |-> Idle]
  /\ clock = ClockStart

\* intercept: the handler has answered (next) or thrown (error); the
\* recording starts
Intercept(r, url, responseTime, failed) ==
  /\ reqs[r] = Idle
  /\ calls < MaxCalls
  /\ calls' = calls + 1
  /\ reqs' = [reqs EXCEPT ![r] =
                [ pc   |-> "logGet",
                  seq  |-> LogCap + calls,
                  args |-> IF failed THEN ErrorArgs(url, responseTime, "Driver with ID ${driverId} not found")
                                     ELSE NextArgs(url, responseTime) ]]
  /\ UNCHANGED <<store, cache, metrics, last, resp, clock>>

\* const logs = (await this.redisService.get(logKey)) || []
RecLogGet(r, up) ==
  /\ reqs[r].pc = "logGet"
  /\ reqs' = [reqs EXCEPT ![r] =
                [ pc |-> "logSet", seq |-> @.seq, args |-> @.args,
                  logs |-> StoredLogs(cache, @.args.endpoint, up) ]]
  /\ UNCHANGED <<store, cache, metrics, calls, last, resp, clock>>

\* logs.push(log); trim; await this.redisService.set(logKey, logs, 86400)
RecLogSet(r, up) ==
  /\ reqs[r].pc = "logSet"
  /\ LET q    == reqs[r]
         logs == PushLog(q.logs, PerformanceLog(q.seq, q.args))
     IN  cache' = IF up THEN RedisSetex(cache, EndpointKey(q.args.endpoint, "logs"),
                                        LogTTL, StringifyLogs(logs))
                        ELSE cache
  /\ reqs' = [reqs EXCEPT ![r] = [pc |-> "metricsGet", seq |-> @.seq, args |-> @.args]]
  /\ UNCHANGED <<store, metrics, calls, last, resp, clock>>

\* const currentMetrics = await this.getEndpointMetrics(endpoint)
RecMetricsGet(r, up) ==
  /\ reqs[r].pc = "metricsGet"
  /\ reqs' = [reqs EXCEPT ![r] =
                [ pc |-> "metricsSet", seq |-> @.seq, args |-> @.args,
                  currentMetrics |-> GetEndpointMetrics(cache, @.args.endpoint, up) ]]
  /\ UNCHANGED <<store, cache, metrics, calls, last, resp, clock>>

\* await this.redisService.set(key, newMetrics, 86400); the recording is done
RecMetricsSet(r, up) ==
  /\ reqs[r].pc = "metricsSet"
  /\ LET q == reqs[r]
     IN  /\ cache' = IF up THEN RedisSetex(cache, EndpointKey(q.args.endpoint, "metrics"),
                                           LogTTL, [json |-> NewMetrics(q.currentMetrics, q.args)])
                           ELSE cache
         /\ resp' = [ op       |-> "recordEndpointRequest",
                      args     |-> q.args,
                      log      |-> PerformanceLog(q.seq, q.args),
                      before   |-> q.currentMetrics,
                      recorded |-> [resp.recorded EXCEPT ![q.args.endpoint] = @ + 1] ]
  /\ reqs' = [reqs EXCEPT ![r] = Idle]
  /\ UNCHANGED <<store, metrics, calls, last, clock>>

\* MonitoringService.getPerformanceReport (the scores and recommendations
\* derived from the two metrics are left out)
GetPerformanceReport ==
  /\ resp' = [ op        |-> "getPerformanceReport",
               endpoints |-> [e \in ReportEndpoints |-> GetEndpointMetrics(cache, e, TRUE)],
               recorded  |-> resp.recorded ]
  /\ UNCHANGED <<store, cache, metrics, calls, last, reqs, clock>>

\* MonitoringService.getEndpointPerformanceHistory(endpoint, limit)
GetEndpointPerformanceHistory(endpoint, limit) ==
  /\ resp' = [ op       |-> "getEndpointPerformanceHistory",
               endpoint |-> endpoint,
               limit    |-> limit,
               logs     |-> SliceLast(StoredLogs(cache, endpoint, TRUE), limit),
               recorded |-> resp.recorded ]
  /\ UNCHANGED <<store, cache, metrics, calls, last, reqs, clock>>

\* the endpoints whose history is asked for
HistoryEndpoints == {"optimized", "other"}

\* one recording at a time
NextMon ==
  \/ \E r \in Slots, url \in Urls, ms \in ResponseTimes, failed \in BOOLEAN :
        Intercept(r, url, ms, failed)
  \/ \E r \in Slots : RecLogGet(r, TRUE)
  \/ \E r \in Slots : RecLogSet(r, TRUE)
  \/ \E r \in Slots : RecMetricsGet(r, TRUE)
  \/ \E r \in Slots : RecMetricsSet(r, TRUE)
  \/ GetPerformanceReport
  \/ \E e \in HistoryEndpoints, limit \in HistoryLimits :
        GetEndpointPerformanceHistory(e, limit)

SpecMon == InitMon /\ [][NextMon]_vars

\* recordings of requests to the cached endpoint running side by side
NextMonRace ==
  \/ \E r \in RaceSlots, ms \in ResponseTimes :
        Intercept(r, <<"drivers", "1", "analytics">>, ms, FALSE)
  \/ \E r \in RaceSlots : RecLogGet(r, TRUE)
  \/ \E r \in RaceSlots : RecLogSet(r, TRUE)
  \/ \E r \in RaceSlots : RecMetricsGet(r, TRUE)
  \/ \E r \in RaceSlots : RecMetricsSet(r, TRUE)

SpecMonRace == InitMon /\ [][NextMonRace]_vars

\* GET /drivers/cache/clear while requests are served and recorded
NextClear ==
  \/ \E r \in Slots, url \in Urls : Intercept(r, url, 150, FALSE)
  \/ \E r \in Slots : RecLogGet(r, TRUE)
  \/ \E r \in Slots : RecLogSet(r, TRUE)
  \/ \E r \in Slots : RecMetricsGet(r, TRUE)
  \/ \E r \in Slots : RecMetricsSet(r, TRUE)
  \/ \E pattern \in ClearPatterns : ClearCache(pattern)

SpecClear == InitMon /\ [][NextClear]_vars

\* ------------------------------------------------------------------------
\* GET /drivers/locations: TripAnalyticsService.getLocationAnalytics
\* ------------------------------------------------------------------------
LocationTTL == 600
DefaultPage == 1
DefaultLimit == 50
MinRouteTrips == 5

\* a query parameter as the handler receives it: no pipe converts it, so a
\* given ?page= or ?limit= is the text of the URL and only the default of an
\* absent one is a number. q is <<>> (absent) or <<n>> (the decimal text of n)
QueryNumber(q, default) == IF q = <<>> THEN [number |-> default] ELSE [text |-> q[1]]

\* the number a value stands for in `*` and `-` and in a template literal
ToNumber(x) == IF "text" \in DOMAIN x THEN x.text ELSE x.number

\* offset + limit: number + number adds, number + string concatenates the
\* decimal texts (texts here have at most two digits)
JsPlus(a, x) ==
  IF "text" \in DOMAIN x
  THEN (IF x.text < 10 THEN 10 * a ELSE 100 * a) + x.text
  ELSE a + x.number

\* Array.prototype.slice(from, to)
Slice(s, from, to) == SubSeq(s, from + 1, Min(to, Len(s)))

\* the routes of the seeded trips
Routes == << <<"Dhaka", "Chittagong">>, <<"Dhaka", "Sylhet">>, <<"Khulna", "Dhaka">> >>

\* a store whose route r has n[r] trips, on the days 5, 6, ..; the first
\* trip of a route has no payment, the others paid 100 * r
RouteTrips(n) ==
  Flatten([r \in 1..Len(Routes) |->
             [i \in 1..n[r] |->
                [ start_location |-> Routes[r][1],
                  end_location   |-> Routes[r][2],
                  trip_date      |-> i + 4,
                  payment        |-> IF i = 1 THEN <<>> ELSE << [amount |-> 100 * r] >> ]]])

RouteCounts == [1..Len(Routes) -> {MinRouteTrips - 1, MinRouteTrips, MinRouteTrips + 1}]

\* the date ranges asked for, as day numbers
DateRanges == { <<1, 9>>, <<1, 10>> }

\* where: trip_date gte startDate, lte endDate
TripsBetween(trips, startDate, endDate) ==
  SelectSeq(trips, LAMBDA t : t.trip_date >= startDate /\ t.trip_date <= endDate)

\* the keys of locationMap in insertion order (the names hold no '|', so
\* key.split('|') gives the two names back)
RECURSIVE RouteKeys(_)
RouteKeys(trips) ==
  IF trips = <<>> THEN <<>>
  ELSE LET before == RouteKeys(SubSeq(trips, 1, Len(trips) - 1))
           key    == << trips[Len(trips)].start_location, trips[Len(trips)].end_location >>
       IN  IF key \in Range(before) THEN before ELSE Append(before, key)

\* Number(trip.payment?.amount || 0)
PaidAmount(t) == IF t.payment = <<>> THEN 0 ELSE t.payment[1].amount

\* one entry of the answer
RouteEntry(trips, key) ==
  LET of == SelectSeq(trips, LAMBDA t : << t.start_location, t.end_location >> = key)
  IN  [ start_location |-> key[1],
        end_location   |-> key[2],
        trip_count     |-> Len(of),
        total_revenue  |-> SeqSum([i \in 1..Len(of) |-> PaidAmount(of[i])]),
        average_fare   |-> Frac(SeqSum([i \in 1..Len(of) |-> PaidAmount(of[i])]), Len(of)) ]

\* .sort((a, b) => b.trip_count - a.trip_count): stable, larger counts first
RECURSIVE SortByTripCount(_)
SortByTripCount(s) ==
  IF s = <<>> THEN <<>>
  ELSE LET m == CHOOSE i \in 1..Len(s) :
                  /\ \A j \in 1..Len(s) : s[j].trip_count <= s[i].trip_count
                  /\ \A j \in 1..(i - 1) : s[j].trip_count < s[i].trip_count
       IN  << s[m] >> \o SortByTripCount(SubSeq(s, 1, m - 1) \o SubSeq(s, m + 1, Len(s)))

\* group, filter (count >= 5), map, sort
RankedRoutes(trips) ==
  LET keys == RouteKeys(trips)
      all  == [i \in 1..Len(keys) |-> RouteEntry(trips, keys[i])]
  IN  SortByTripCount(SelectSeq(all, LAMBDA e : e.trip_count >= MinRouteTrips))

\* `location:${startDate}:${endDate}:${page}:${limit}`
LocationCacheKey(startDate, endDate, page, limit) ==
  << "location", startDate, endDate, ToNumber(page), ToNumber(limit) >>

\* the answer computed on a cache miss
LocationAnalytics(st, startDate, endDate, page, limit) ==
  LET offset == (ToNumber(page) - 1) * ToNumber(limit)
  IN  Slice(RankedRoutes(TripsBetween(st.trips, startDate, endDate)),
            offset, JsPlus(offset, limit))

InitLoc ==
  /\ \E n \in RouteCounts : store = [trips |-> RouteTrips(n)]
  /\ cache = EmptyCache
  /\ metrics = InitMetrics
  /\ calls = 0
  /\ last = NoCall
  /\ reqs = [r \in Slots |-> Idle]
  /\ resp = [op |-> "none"]
  /\ clock = ClockStart

\* GET /drivers/locations?startDate=&endDate=&page=&limit=, answered whole
GetLocationAnalytics(range, pageQ, limitQ) ==
  LET page   == QueryNumber(pageQ, DefaultPage)
      limit  == QueryNumber(limitQ, DefaultLimit)
      key    == LocationCacheKey(range[1], range[2], page, limit)
      cached == RedisServiceGet(cache, key, TRUE).value
      fresh  == LocationAnalytics(store, range[1], range[2], page, limit)
  IN  /\ calls < MaxCalls
      /\ calls' = calls + 1
      /\ cache' = IF cached # <<>> THEN cache
                  ELSE RedisSetex(cache, key, LocationTTL, [json |-> fresh])
      /\ resp' = [ op        |-> "getLocationAnalytics",
                   startDate |-> range[1],
                   endDate   |-> range[2],
                   page      |-> ToNumber(page),
                   limit     |-> ToNumber(limit),
                   missed    |-> cached = <<>>,
                   result    |-> IF cached # <<>> THEN cached[1] ELSE fresh ]
      /\ UNCHANGED <<store, metrics, last, reqs, clock>>

QueryPages == { <<>>, <<1>>, <<2>>, <<3>> }
QueryLimits == { <<>>, <<1>>, <<2>> }

NextLoc ==
  \E range \in DateRanges, pageQ \in QueryPages, limitQ \in QueryLimits :
    GetLocationAnalytics(range, pageQ, limitQ)

SpecLoc == InitLoc /\ [][NextLoc]_vars

\* ------------------------------------------------------------------------
\* getDriverAnalytics requests for different drivers in flight at once,
\* beside RedisMonitorService.resetMetrics
\* ------------------------------------------------------------------------
\* the ids asked for: the two seeded drivers and one no row has
DriverParams == { <<"1">>, <<"2">>, <<"3">> }

\* RedisMonitorService.resetMetrics
ResetMetrics ==
  /\ metrics' = InitMetrics
  /\ UNCHANGED <<store, cache, calls, last, reqs, resp, clock>>

NextDrivers ==
  \/ \E r \in RaceSlots, raw \in DriverParams : HttpGetAnalytics(r, raw)
  \/ \E r \in RaceSlots : CachedCacheGet(r, TRUE)
  \/ \E r \in RaceSlots, ok \in BOOLEAN : CachedFindDriver(r, ok)
  \/ \E r \in RaceSlots : CachedStats(r, TRUE)
  \/ \E r \in RaceSlots, tb \in TieBreaks : CachedTrips(r, TRUE, tb)
  \/ \E r \in RaceSlots : CachedCacheSet(r, TRUE)
  \/ ResetMetrics

SpecDrivers == InitRace /\ [][NextDrivers]_vars

\* ------------------------------------------------------------------------
\* PerformanceTestService.benchmarkEndpoint
\* ------------------------------------------------------------------------
MaxBenchRequests == 4
MaxConcurrency == 3

\* Math.ceil(totalRequests / concurrency)
Batches(totalRequests, concurrency) == (totalRequests + concurrency - 1) \div concurrency

\* a batch as large as the concurrency, whatever is left to send
BatchSize_Full(totalRequests, concurrency, batch) == concurrency

\* Math.min(concurrency, totalRequests - batch * concurrency)
BatchSize(totalRequests, concurrency, batch) ==
  Min(concurrency, totalRequests - batch * concurrency)

\* the locals of benchmarkEndpoint before the loop
BenchmarkStart(totalRequests, concurrency) ==
  [ strategy           |-> "benchmarkEndpoint",
    pc                 |-> "loop",
    totalRequests      |-> totalRequests,
    concurrency        |-> concurrency,
    batch              |-> 0,
    responseTimes      |-> <<>>,
    successfulRequests |-> 0,
    failedRequests     |-> 0 ]

InitBench ==
  /\ \E totalRequests \in 1..MaxBenchRequests, concurrency \in 1..MaxConcurrency :
        last = BenchmarkStart(totalRequests, concurrency)
  /\ reqs = <<>>
  /\ calls = 0
  /\ resp = [op |-> "none"]
  /\ store = SpecStore(0)
  /\ cache = EmptyCache
  /\ metrics = InitMetrics
  /\ clock = ClockStart

\* batch < batches: Array(batchSize).fill(0).map(async () => ...) calls
\* requestFn batchSize times; then await Promise.all(batchPromises)
StartBatch ==
  /\ last.pc = "loop"
  /\ last.batch < Batches(last.totalRequests, last.concurrency)
  /\ LET batchSize == BatchSize(last.totalRequests, last.concurrency, last.batch)
     IN  /\ reqs' = [i \in 1..batchSize |-> [pc |-> "pending"]]
         /\ calls' = calls + batchSize
  /\ last' = [last EXCEPT !.pc = "await"]
  /\ UNCHANGED <<store, cache, metrics, resp, clock>>

\* await requestFn() of one batch promise resolves or rejects
RequestSettles(i, ok, responseTime) ==
  /\ last.pc = "await"
  /\ i \in DOMAIN reqs
  /\ reqs[i].pc = "pending"
  /\ reqs' = [reqs EXCEPT ![i] = [pc |-> "settled"]]
  /\ last' = IF ok
             THEN [last EXCEPT !.responseTimes = Append(@, responseTime),
                               !.successfulRequests = @ + 1]
             ELSE [last EXCEPT !.failedRequests = @ + 1]
  /\ UNCHANGED <<store, cache, metrics, calls, resp, clock>>

\* Promise.all(batchPromises) resolves; batch++
BatchDone ==
  /\ last.pc = "await"
  /\ \A i \in DOMAIN reqs : reqs[i].pc = "settled"
  /\ reqs' = <<>>
  /\ last' = [last EXCEPT !.pc = "loop", !.batch = @ + 1]
  /\ UNCHANGED <<store, cache, metrics, calls, resp, clock>>

\* the loop is over: the metrics are returned
BenchmarkReturns ==
  /\ last.pc = "loop"
  /\ last.batch >= Batches(last.totalRequests, last.concurrency)
  /\ last' = [last EXCEPT !.pc = "done"]
  /\ resp' = [ op                 |-> "benchmarkEndpoint",
               totalRequests      |-> last.totalRequests,
               successfulRequests |-> last.successfulRequests,
               failedRequests     |-> last.failedRequests,
               responseTimes      |-> last.responseTimes ]
  /\ UNCHANGED <<store, cache, metrics, calls, reqs, clock>>

NextBench ==
  \/ StartBatch
  \/ \E i \in 1..MaxConcurrency, ok \in BOOLEAN, responseTime \in ResponseTimes :
        RequestSettles(i, ok, responseTime)
  \/ BatchDone
  \/ BenchmarkReturns

SpecBench == InitBench /\ [][NextBench]_vars

\* ------------------------------------------------------------------------
\* GET /drivers/health: TripAnalyticsService.healthCheck
\* ------------------------------------------------------------------------
\* the drivers table: seeded, with driver 1 gone, empty
DriverTables == { DriverRows, Tail(DriverRows), <<>> }

\* RedisService.healthCheck: ping in try/catch
RedisHealthCheck(up) == up

\* await this.prisma.getDriverById(1).catch(() => null): the row, or null
\* when no row has the id and when the query fails alike
GetDriverByIdOrNull(st, d, ok) == IF ok THEN DriverById(st, d) ELSE <<>>

InitHealth ==
  /\ \E rows \in DriverTables : store = [SpecStore(0) EXCEPT !.drivers = rows]
  /\ cache = EmptyCache
  /\ metrics = InitMetrics
  /\ calls = 0
  /\ last = NoCall
  /\ reqs = [r \in Slots |-> Idle]
  /\ resp = NoResponse
  /\ clock = ClockStart

\* healthCheck with Redis answering the ping or not (up) and the store
\* answering the query or not (ok)
HealthCheck(up, ok) ==
  /\ resp' = [ entry    |-> "health",
               up       |-> up,
               ok       |-> ok,
               threw    |-> FALSE,
               redis    |-> RedisHealthCheck(up),
               database |-> GetDriverByIdOrNull(store, 1, ok) # <<>> ]
  /\ UNCHANGED <<store, cache, metrics, calls, last, reqs, clock>>

NextHealth ==
  \/ \E up \in BOOLEAN, ok \in BOOLEAN : HealthCheck(up, ok)
  \/ \E r \in Slots, raw \in DriverParams : HttpGetAnalytics(r, raw)
  \/ \E r \in Slots, up \in BOOLEAN : CachedCacheGet(r, up)
  \/ \E r \in Slots, ok \in BOOLEAN : CachedFindDriver(r, ok)
  \/ \E r \in Slots, ok \in BOOLEAN : CachedStats(r, ok)
  \/ \E r \in Slots, ok \in BOOLEAN, tb \in TieBreaks : CachedTrips(r, ok, tb)
  \/ \E r \in Slots, up \in BOOLEAN : CachedCacheSet(r, up)

SpecHealth == InitHealth /\ [][NextHealth]_vars
\* ------------------------------------------------------------------------
\* What the store says about a driver (the reference the results are held to)
\* ------------------------------------------------------------------------
DriverExists(st, d) == \E i \in 1..Len(st.drivers) : st.drivers[i].driver_id = d

TripIdsOf(st, d) == { st.trips[i].trip_id : i \in { j \in 1..Len(st.trips) : st.trips[j].driver_id = d } }

HasPayment(st, tid) == \E i \in 1..Len(st.payments) : st.payments[i].trip_id = tid
HasRating(st, tid) == \E i \in 1..Len(st.ratings) : st.ratings[i].trip_id = tid

\* each trip has at most one payment row and at most one rating row
OneToOne(st) ==
  /\ \A i, j \in 1..Len(st.payments) :
       st.payments[i].trip_id = st.payments[j].trip_id => i = j
  /\ \A i, j \in 1..Len(st.ratings) :
       st.ratings[i].trip_id = st.ratings[j].trip_id => i = j

RECURSIVE SumOver(_, _)
SumOver(S, f) ==
  IF S = {} THEN 0
  ELSE LET x == CHOOSE y \in S : TRUE IN f[x] + SumOver(S \ {x}, f)

\* payment amount of a trip if present, else 0
AmountOrZero(st) ==
  [tid \in { st.trips[i].trip_id : i \in 1..Len(st.trips) } |->
     IF HasPayment(st, tid)
     THEN (CHOOSE p \in Range(st.payments) : p.trip_id = tid).amount
     ELSE 0]

RatingOrZero(st) ==
  [tid \in { st.trips[i].trip_id : i \in 1..Len(st.trips) } |->
     IF HasRating(st, tid)
     THEN (CHOOSE r \in Range(st.ratings) : r.trip_id = tid).rating_value
     ELSE 0]

ExpectedEarnings(st, d) == SumOver(TripIdsOf(st, d), AmountOrZero(st))

RatedTripIds(st, d) == { tid \in TripIdsOf(st, d) : RatingOrZero(st)[tid] > 0 }

ExpectedAverage(st, d) ==
  IF RatedTripIds(st, d) = {} THEN Frac(0, 1)
  ELSE Frac(SumOver(RatedTripIds(st, d), RatingOrZero(st)),
            Cardinality(RatedTripIds(st, d)))

\* a number in millionths is within half a hundredth of the quotient f
WithinRounding(micro, f) ==
  2 * Abs(micro * f.den - MicroPerCenti * f.num) <= MicroPerCenti * f.den

LastOk == last # NoCall /\ last.outcome.kind = "ok"

\* the result of a fan-out strategy that a call on this store can return
FanOutResults(st, d) ==
  {DbOptimized(st, d)} \cup { SvcOptimizedCompute(st, d, tb) : tb \in TieBreaks }

SingleQueryResults(st, d) ==
  {DbUnoptimized(st, d)} \cup { SvcUnoptimized(st, d, tb) : tb \in TieBreaks }

\* equal total_trips, equal total_earnings, average_rating within 0.01
SameAggregates(a, b) ==
  /\ a.total_trips = b.total_trips
  /\ a.total_earnings = b.total_earnings
  /\ Abs(a.average_rating - b.average_rating) <= MicroPerCenti

\* ------------------------------------------------------------------------
\* Claims on the aggregates (SpecAgg)
\* ------------------------------------------------------------------------
\* C1: for a driver in the store (each trip having at most one payment and
\* one rating), a result of the single-query strategy and a result of the
\* fan-out strategy on the same store have equal total_trips, equal
\* total_earnings and average_rating values at most 0.01 apart.
C1_StrategiesAgree ==
  (LastOk /\ OneToOne(store) /\ DriverExists(store, last.driverId)) =>
     /\ last.strategy \in SingleQuery =>
          \A f \in FanOutResults(store, last.driverId) :
             f.kind = "ok" /\ SameAggregates(last.outcome.value, f.value)
     /\ last.strategy \in FanOut =>
          \A g \in SingleQueryResults(store, last.driverId) :
             g.kind = "ok" /\ SameAggregates(g.value, last.outcome.value)

C3_AverageOverAllRated ==
  LastOk =>
     /\ WithinRounding(last.outcome.value.average_rating,
                       ExpectedAverage(store, last.driverId))
     /\ RatedTripIds(store, last.driverId) = {} =>
          last.outcome.value.average_rating = 0

\* C4: total_trips of every computed result is the number of trips of the
\* requested driver, each counted once, paid or not, rated or not.
C4_TotalTripsIsTripCount ==
  LastOk =>
     last.outcome.value.total_trips = Cardinality(TripIdsOf(store, last.driverId))

C4_Witness ==
  /\ LastOk
  /\ last.strategy \in SingleQuery
  /\ \E t \in TripIdsOf(store, last.driverId) : HasPayment(store, t) /\ HasRating(store, t)
  /\ \E i \in 1..Len(store.trips) : store.trips[i].driver_id # last.driverId
  /\ last.outcome.value.total_trips = 1

\* C5: for a driver that exists and has no trips every strategy returns
\* total_trips = 0, total_earnings = 0, average_rating = 0 and trips = [].
C5_ZeroTripsEmptyResult ==
  (last # NoCall /\ DriverExists(store, last.driverId)
     /\ TripIdsOf(store, last.driverId) = {}) =>
     /\ last.outcome.kind = "ok"
     /\ last.outcome.value.total_trips = 0
     /\ last.outcome.value.total_earnings = 0
     /\ last.outcome.value.average_rating = 0
     /\ last.outcome.value.trips = <<>>


\* ------------------------------------------------------------------------
\* The running service: what a response tells about its request
\* ------------------------------------------------------------------------
CacheOps == {"cache.get", "cache.set"}
Called(p) == p.entry # "none" /\ p.ops # <<>>
DbFailed(p) ==
  \E i \in 1..Len(p.ops) : p.ops[i].op \notin CacheOps /\ p.ops[i].res = "fail"
CacheFailed(p) ==
  \E i \in 1..Len(p.ops) : p.ops[i].op \in CacheOps /\ p.ops[i].res = "fail"
WroteCache(p) == \E i \in 1..Len(p.ops) : p.ops[i].op = "cache.set"
IsPositiveInteger(raw) ==
  IsNumberString(raw) /\ IsInteger(NumberOf(raw)) /\ NumberOf(raw).num > 0
UnknownDriver(p) ==
  /\ IsPositiveInteger(p.raw)
  /\ DriverById(store, NumberOf(p.raw).num) = <<>>
Completes(r) == reqs[r].pc # "idle" /\ reqs'[r].pc = "idle"

\* C6: a request for a positive integer driverId that no driver row has,
\* with every store read answered, fails on both endpoints, is answered 404
\* with the message "Driver not found", and that answer differs from the
\* answer to a failed store read.
C6_NotFoundIs404 ==
  (resp.entry \in HttpEntries /\ UnknownDriver(resp) /\ ~DbFailed(resp)) =>
     /\ resp.outcome.kind = "error"
     /\ resp.http[1] = [status |-> 404, message |-> "Driver not found"]
     /\ resp.http[1] # HttpResponse(StoreFailure)

\* C7: a request whose driverId is not a positive integer (non-numeric, zero,
\* negative, fractional) is answered 400 and has issued no cache read and no
\* store read; no such request is ever in flight past the validation.
C7_InvalidIdRejected ==
  /\ (resp.entry \in HttpEntries /\ ~IsPositiveInteger(resp.raw)) =>
        /\ resp.http[1].status = 400
        /\ resp.ops = <<>>
  /\ \A r \in Slots :
        (reqs[r].pc # "idle" /\ reqs[r].entry \in HttpEntries) =>
           IsPositiveInteger(reqs[r].raw)

\* C8: a call one of whose store reads failed ends with an error, not with a
\* DriverAnalytics, has issued no cache write, and the step that ends it
\* leaves the cache as it was.
C8_StoreFailureAborts ==
  /\ []((Called(resp) /\ DbFailed(resp)) =>
          /\ resp.outcome.kind = "error"
          /\ ~WroteCache(resp))
  /\ [][\A r \in Slots : (Completes(r) /\ DbFailed(resp')) => cache' = cache]_vars

C8_Witness ==
  /\ resp.entry = "cached"
  /\ DbFailed(resp)
  /\ Len(resp.reads) >= 1
  /\ DriverCacheKey(resp.driverId[1]) \in DOMAIN cache

\* C9: a getDriverAnalytics call whose cache read or cache write failed never
\* ends with the cache's error: after a failed cache read the store is read
\* as on a miss, and the call returns the DriverAnalytics computed from the
\* store reads exactly when the driver and all three reads were obtained.
C9_CacheFailureNotFatal ==
  (resp.entry = "cached" /\ Called(resp) /\ CacheFailed(resp)) =>
     /\ resp.outcome.kind = "error" => resp.outcome.class # "RedisError"
     /\ resp.ops[1].res = "fail" =>
           Len(resp.ops) >= 2 /\ resp.ops[2].op = "db.driver.findUnique"
     /\ resp.outcome.kind = "ok" <=> Len(resp.reads) = 3
     /\ Len(resp.reads) = 3 =>
           resp.outcome = Ok(BuildAnalytics(resp.reads[1], resp.reads[2], resp.reads[3]))

C9_Witness ==
  /\ resp.entry = "cached"
  /\ Called(resp)
  /\ resp.ops[1].res = "fail"
  /\ resp.ops[Len(resp.ops)] =
       CacheOp("cache.set", DriverCacheKey(resp.driverId[1]), CacheTTL, "fail")
  /\ resp.outcome.kind = "ok"

\* C10: getDriverAnalytics(d) reads the cache under d's key first and only
\* once; on a hit it issues nothing else and returns the cached value; on a
\* miss it reads the store and, when it returns a result, has before that
\* written this result under d's key with a TTL of 300 seconds.
C10_CacheAside ==
  /\ []((resp.entry = "cached" /\ Called(resp)) =>
          LET key == DriverCacheKey(resp.driverId[1])
              ops == resp.ops
          IN  /\ ops[1].op = "cache.get" /\ ops[1].key = key
              /\ \A i \in 2..Len(ops) : ops[i].op # "cache.get"
              /\ ops[1].res = "hit" => Len(ops) = 1 /\ resp.outcome.kind = "ok"
              /\ ops[1].res # "hit" =>
                    Len(ops) >= 2 /\ ops[2].op = "db.driver.findUnique"
              /\ (ops[1].res # "hit" /\ resp.outcome.kind = "ok") =>
                    /\ [i \in 1..Len(ops) |-> ops[i].op] =
                         << "cache.get", "db.driver.findUnique", "db.stats.queryRaw",
                            "db.trip.findMany", "cache.set" >>
                    /\ ops[5].key = key /\ ops[5].ttl = 300
                    /\ resp.outcome.value =
                         BuildAnalytics(resp.reads[1], resp.reads[2], resp.reads[3]))
  /\ [][\A r \in Slots :
          (Completes(r) /\ resp'.entry = "cached") =>
             LET key  == DriverCacheKey(resp'.driverId[1])
                 ops  == resp'.ops
                 lastOp == ops[Len(ops)]
             IN  /\ ops[1].res = "hit" =>
                       /\ resp'.outcome = Ok(JsonParse(cache[key].text))
                       /\ cache' = cache
                 /\ (lastOp.op = "cache.set" /\ lastOp.res = "ok") =>
                       cache'[key] = [text |-> JsonStringify(resp'.outcome.value),
                                      ttl |-> 300]]_vars

C10_Witness ==
  /\ resp.entry = "cached"
  /\ Called(resp)
  /\ resp.ops[1].res = "hit"
  /\ metrics.misses >= 1
  /\ resp.outcome.value.total_trips > 0

\* ------------------------------------------------------------------------
\* Freshness of what getDriverAnalytics returns
\* ------------------------------------------------------------------------

\* the oldest store version a result of driver 1 was read from: the store
\* with n trips is version n, and both total_trips and the trips list tell it
OldestVersion(v) == Min(v.total_trips, Len(v.trips))

\* C11: a DriverAnalytics that getDriverAnalytics serves from the cache was
\* read from store versions that were still current no more than the TTL
\* (300 seconds) before the response: a value older than the TTL is never
\* served.
C11_NeverOlderThanTTL ==
  (resp.entry = "cached" /\ resp.outcome.kind = "ok" /\ resp.ops[1].res = "hit") =>
     LET m == OldestVersion(resp.outcome.value)
     IN  m < Len(clock.changed) => resp.at - clock.changed[m + 1] <= CacheTTL

\* a request that missed the cache and computed its answer from the store
MissedAndComputed(p) ==
  /\ p.entry = "cached"
  /\ p.outcome.kind = "ok"
  /\ p.ops[1].res = "miss"

\* C12: when two getDriverAnalytics requests for the same driver miss the
\* cache concurrently over an unchanged store, the second to finish returns
\* the result the first returned, and its cache write leaves the cache entry
\* as the first wrote it.
C12_RacingMissesAgree ==
  [][ (MissedAndComputed(resp) /\ MissedAndComputed(resp') /\ resp' # resp
         /\ resp'.driverId = resp.driverId)
        => /\ resp'.outcome = resp.outcome
           /\ cache' = cache ]_vars

ServedFromCache(p) ==
  /\ p.entry = "cached"
  /\ p.outcome.kind = "ok"
  /\ p.ops[1].res = "hit"

\* C13: a getDriverAnalytics call served from the cache, directly after the
\* call for the same driver that computed the value and wrote it to the
\* cache, returns a value equal, field by field, to that freshly computed
\* value.
C13_SecondCallEqualsFirst ==
  [][ (MissedAndComputed(resp) /\ WroteCache(resp) /\ ServedFromCache(resp')
         /\ resp' # resp /\ resp'.driverId = resp.driverId)
        => resp'.outcome.value = resp.outcome.value ]_vars

Answered(p, op) == \E i \in 1..Len(p.ops) : p.ops[i].op = op /\ p.ops[i].res = "ok"

\* C14: in the fan-out strategy with a non-empty trip-id set, whenever the
\* payment lookup is awaited the rating lookup has been started too (neither
\* waits for the other's result), and a merged result is returned only after
\* both lookups were answered.
C14_LookupsStartedTogether ==
  /\ \A r \in Slots :
        "db.payments" \in Awaited(reqs[r]) => "db.ratings" \in Awaited(reqs[r])
  /\ (resp.entry = "dbOptimized" /\ resp.outcome.kind = "ok"
        /\ resp.outcome.value.trips # <<>>)
       => Answered(resp, "db.payments") /\ Answered(resp, "db.ratings")

NoTripsFetched(q) == Len(q.reads) >= 2 /\ q.reads[2] = <<>>
Lookups == {"db.payments", "db.ratings"}

\* C15: a fan-out call whose driver exists and whose fetched trip set is
\* empty never issues a payment lookup or a rating lookup, and its result has
\* total_trips = 0, total_earnings = 0, average_rating = 0 and trips = [].
C15_EmptyTripsNoLookups ==
  /\ (resp.entry = "dbOptimized" /\ NoTripsFetched(resp)) =>
        /\ \A i \in 1..Len(resp.ops) : resp.ops[i].op \notin Lookups
        /\ resp.outcome.kind = "ok"
        /\ resp.outcome.value.total_trips = 0
        /\ resp.outcome.value.total_earnings = 0
        /\ resp.outcome.value.average_rating = 0
        /\ resp.outcome.value.trips = <<>>
  /\ \A r \in Slots :
        (reqs[r].pc # "idle" /\ reqs[r].entry = "dbOptimized" /\ NoTripsFetched(reqs[r]))
           => Awaited(reqs[r]) = {}

C15_Witness ==
  /\ resp.entry = "dbOptimized"
  /\ NoTripsFetched(resp)
  /\ Answered(resp, "db.drivers")
  /\ Answered(resp, "db.trips")
  /\ resp.outcome.kind = "ok"

CommentOrEmpty(st) ==
  [tid \in { st.trips[i].trip_id : i \in 1..Len(st.trips) } |->
     IF HasRating(st, tid)
     THEN (CHOOSE r \in Range(st.ratings) : r.trip_id = tid).comment
     ELSE ""]

FanOutMerged == LastOk /\ last.strategy = "DbOptimized"

\* C16: the fan-out merge returns one TripDetail per fetched trip, in the
\* order the trips were fetched, each with the amount of the payment of that
\* very trip (0 if it has none) and the rating_value and comment of the
\* rating of that very trip (0 and "" if it has none).
C16_MergeByTripId ==
  FanOutMerged =>
    LET fetched == TripsOfDriver(store, last.driverId)
        out     == last.outcome.value.trips
    IN  /\ Len(out) = Len(fetched)
        /\ \A i \in 1..Len(fetched) :
              /\ out[i].trip_id = fetched[i].trip_id
              /\ out[i].amount = AmountOrZero(store)[fetched[i].trip_id]
              /\ out[i].rating_value = RatingOrZero(store)[fetched[i].trip_id]
              /\ out[i].comment = CommentOrEmpty(store)[fetched[i].trip_id]

\* two trips merged, the second without the payment and the rating the first has
C16_Witness ==
  /\ FanOutMerged
  /\ OneToOne(store)
  /\ Len(last.outcome.value.trips) >= 2
  /\ last.outcome.value.trips[1].amount > 0
  /\ last.outcome.value.trips[1].rating_value > 0
  /\ last.outcome.value.trips[2].amount = 0
  /\ last.outcome.value.trips[2].rating_value = 0
  /\ last.outcome.value.trips[2].comment = ""

\* the strategies of TripAnalyticsService, whose trip query is bounded
BoundedTripQuery == {"SvcUnoptimized", "SvcCached"}
TripListed == LastOk /\ last.strategy \in BoundedTripQuery

InvalidationOps == {"invalidateDriverCache", "invalidateAllDriverCaches", "clearCache"}

\* the last invalidation was to invalidate the driver of request q, and the
\* cache has not been written since it completed
InvalidatedFor(q) ==
  /\ last.strategy \in InvalidationOps
  /\ q.driverId.num \in last.drivers
  /\ last.cache = cache

\* C18: the first cache lookup of getDriverAnalytics(d) after an explicit
\* invalidation of driver d has completed (invalidateDriverCache(d),
\* invalidateAllDriverCaches(), or clearCache with a pattern matching the
\* driver keys) is a miss: the request goes on to read the store.
C18_InvalidationForcesMiss ==
  [][ \A r \in Slots :
        (reqs[r].pc = "cacheGet" /\ reqs'[r] # reqs[r] /\ InvalidatedFor(reqs[r]))
          => reqs'[r].pc = "findDriver" ]_vars

Unoptimized(q) == q.pc # "idle" /\ q.entry = "unoptimized"

\* C19: no step of a getDriverAnalyticsUnoptimized call changes a cache
\* entry, the hit/miss counters or the store; the call issues no cache
\* operation; its aggregate read returns the totals of the store as it is at
\* that read and its trip read the trips of the store as it is at that read,
\* and the result is built from these two reads alone.
C19_UnoptimizedNoSideEffects ==
  [][ \A r \in Slots :
        ((Unoptimized(reqs[r]) \/ Unoptimized(reqs'[r])) /\ reqs'[r] # reqs[r]) =>
           /\ cache' = cache
           /\ metrics' = metrics
           /\ store' = store
           /\ (Unoptimized(reqs[r]) /\ Unoptimized(reqs'[r])) =>
                 LET d == RowId(reqs[r].driverId)
                 IN  /\ reqs'[r].reads[1].total_trips = Cardinality(TripIdsOf(store, d))
                     /\ reqs'[r].reads[1].total_earnings = ExpectedEarnings(store, d)
           /\ (Unoptimized(reqs[r]) /\ ~Unoptimized(reqs'[r])) =>
                 /\ \A i \in 1..Len(resp'.ops) : resp'.ops[i].op \notin CacheOps
                 /\ Len(resp'.ops) <= 2
                 /\ resp'.outcome.kind = "ok" =>
                       LET d == RowId(reqs[r].driverId)
                           v == resp'.outcome.value
                       IN  /\ { v.trips[i].trip_id : i \in 1..Len(v.trips) }
                                = TripIdsOf(store, d)
                           /\ v.total_trips = reqs[r].reads[1].total_trips
                           /\ v.total_earnings = reqs[r].reads[1].total_earnings
    ]_vars

\* an unoptimized call answered with the trip stored after the cache entry
\* for the same driver was written, that entry still in the cache
C19_Witness ==
  /\ resp.entry = "unoptimized"
  /\ resp.outcome.kind = "ok"
  /\ resp.outcome.value.total_trips > 0
  /\ DriverCacheKey(resp.driverId[1]) \in DOMAIN cache
  /\ metrics.misses > 0

\* C20: every invocation of either strategy eventually completes, also when
\* a data-store or cache read is never answered.
C20_EveryCallCompletes ==
  \A r \in Slots : (reqs[r].pc # "idle") ~> (reqs[r].pc = "idle")

\* every recording that was started has finished
AllRecorded == \A r \in RaceSlots : reqs[r] = Idle

\* C21: every request is tracked. Once the recordings of the N requests to
\* the cached driver-analytics endpoint have all finished, in whatever order
\* their steps were interleaved, the endpoint's stored metrics have
\* totalRequests = N and its stored log holds min(N, 1000) entries.
C21_EveryRequestTracked ==
  AllRecorded =>
    /\ GetEndpointMetrics(cache, "optimized", TRUE).totalRequests = resp.recorded["optimized"]
    /\ Len(StoredLogs(cache, "optimized", TRUE)) = Min(resp.recorded["optimized"], LogCap)

\* the report entry that stands for an endpoint type of the interceptor
ReportEntry(endpoint) == IF endpoint = "optimized" THEN "cached-analytics" ELSE "complex-query"

\* C22: once the interceptor has recorded at least one request to the
\* optimized or to the unoptimized driver-analytics endpoint, the performance
\* report shows totalRequests >= 1 in the entry of that endpoint.
C22_ReportShowsRecorded ==
  resp.op = "getPerformanceReport" =>
    \A e \in {"optimized", "unoptimized"} :
      resp.recorded[e] >= 1 => resp.endpoints[ReportEntry(e)].totalRequests >= 1

\* the entries are in recording order: their timestamps increase
InRecordingOrder(logs) == \A i \in 1..(Len(logs) - 1) : logs[i].timestamp < logs[i + 1].timestamp

\* the last Min(limit, Len(logs)) entries of the log
MostRecent(logs, limit) == SubSeq(logs, Len(logs) - Min(limit, Len(logs)) + 1, Len(logs))

\* the stored log of every endpoint holds at most 1000 entries, oldest first
LogsCapped ==
  \A e \in EndpointTypes :
    /\ Len(StoredLogs(cache, e, TRUE)) <= LogCap
    /\ InRecordingOrder(StoredLogs(cache, e, TRUE))

\* a step that answers getEndpointPerformanceHistory
HistoryAnswered == resp' # resp /\ resp'.op = "getEndpointPerformanceHistory"

\* C23: with recordings made one after another, an endpoint's stored log
\* holds at most 1000 entries in recording order, and
\* getEndpointPerformanceHistory(endpoint, limit) returns at most `limit`
\* entries for every limit >= 0: the most recent ones, in recording order.
C23_HistoryBounded ==
  /\ []LogsCapped
  /\ [][ HistoryAnswered =>
           /\ Len(resp'.logs) <= resp'.limit
           /\ resp'.logs = MostRecent(StoredLogs(cache, resp'.endpoint, TRUE), resp'.limit) ]_vars

\* the keys the monitoring service keeps: the endpoint metrics and logs
MonitoringKeys == { EndpointKey(e, kind) : e \in EndpointTypes, kind \in {"logs", "metrics"} }

\* a step that completes clearCache
CacheCleared == last' # last /\ last'.strategy = "clearCache"

\* C24: clearCache(pattern) clears cached analytics data only: every stored
\* key of the monitoring service (endpoint metrics, endpoint logs) is left
\* as it was.
C24_ClearKeepsMonitoring ==
  [][ CacheCleared =>
        \A k \in MonitoringKeys \cap DOMAIN cache :
          k \in DOMAIN cache' /\ cache'[k] = cache[k] ]_vars

\* the trips of a route inside the date range of the answer
RouteTripsInRange(start, end) ==
  SelectSeq(store.trips, LAMBDA t : /\ t.start_location = start /\ t.end_location = end
                                    /\ t.trip_date >= resp.startDate
                                    /\ t.trip_date <= resp.endDate)

\* the routes with at least 5 trips inside the date range, each with its
\* count and its revenue (a trip without payment adds 0)
QualifyingRoutes ==
  { [ start_location |-> Routes[r][1],
      end_location   |-> Routes[r][2],
      trip_count     |-> Len(RouteTripsInRange(Routes[r][1], Routes[r][2])),
      total_revenue  |-> SeqSum([i \in 1..Len(RouteTripsInRange(Routes[r][1], Routes[r][2])) |->
                                   PaidAmount(RouteTripsInRange(Routes[r][1], Routes[r][2])[i])]) ] :
      r \in { x \in 1..Len(Routes) :
                Len(RouteTripsInRange(Routes[x][1], Routes[x][2])) >= MinRouteTrips } }

\* an answer entry without its average
CountAndRevenue(e) ==
  [ start_location |-> e.start_location, end_location |-> e.end_location,
    trip_count |-> e.trip_count, total_revenue |-> e.total_revenue ]

\* the whole ordered list the pages are cut from
WholeRanking == RankedRoutes(TripsBetween(store.trips, resp.startDate, resp.endDate))

\* C25: on a cache miss getLocationAnalytics(startDate, endDate, page, limit)
\* returns the routes with at least 5 trips inside the date range (a missing
\* payment counted as 0), ordered by non-increasing trip_count, restricted
\* to the positions (page-1)*limit .. page*limit-1 of that ordering, so the
\* pages of one limit are disjoint and together give the whole list.
C25_LocationPage ==
  (resp.op = "getLocationAnalytics" /\ resp.missed) =>
    /\ { CountAndRevenue(e) : e \in Range(WholeRanking) } = QualifyingRoutes
    /\ Len(WholeRanking) = Cardinality(QualifyingRoutes)
    /\ \A i \in 1..(Len(WholeRanking) - 1) :
         WholeRanking[i].trip_count >= WholeRanking[i + 1].trip_count
    /\ resp.result = SubSeq(WholeRanking, (resp.page - 1) * resp.limit + 1,
                            Min(resp.page * resp.limit, Len(WholeRanking)))

\* the recording of a request whose handler threw has just finished
FailedRecorded == resp.op = "recordEndpointRequest" /\ Truthy(resp.args.isError)

\* C26: the monitoring record of a failed request has status 'error',
\* carries the error's message in its error field and has isCached = false,
\* and recording it does not raise the number of cache hits implied by the
\* endpoint's cacheHitRate.
C26_FailureRecordedAsError ==
  FailedRecorded =>
    /\ resp.log.status = "error"
    /\ resp.log.error = Str("Driver with ID ${driverId} not found")
    /\ resp.log.isCached = Bool(FALSE)
    /\ ImpliedHits(NewMetrics(resp.before, resp.args)) <= ImpliedHits(resp.before)

\* the counters of the cache monitor agree with each other
CountersConsistent ==
  /\ metrics.hits + metrics.misses = metrics.totalRequests
  /\ metrics.hitRate = IF metrics.totalRequests = 0 THEN Frac(0, 1)
                       ELSE Frac(100 * metrics.hits, metrics.totalRequests)

\* C27: in every state of the cache monitor hits + misses = totalRequests
\* and hitRate = 100 * hits / totalRequests (0 without requests); a
\* getDriverAnalytics call that returns a result adds one to hits when the
\* result came from the cache and one to misses otherwise, and a call that
\* fails changes neither counter.
C27_MonitorCounts ==
  /\ []CountersConsistent
  /\ [][ \A r \in RaceSlots :
           Completes(r) =>
             /\ ServedFromCache(resp') =>
                  /\ metrics'.hits = metrics.hits + 1
                  /\ metrics'.misses = metrics.misses
             /\ MissedAndComputed(resp') =>
                  /\ metrics'.misses = metrics.misses + 1
                  /\ metrics'.hits = metrics.hits
             /\ resp'.outcome.kind # "ok" => metrics' = metrics ]_vars

\* a call served from the cache after a call that missed: one hit and one
\* miss are counted
C27_Witness ==
  /\ metrics.hits = 1
  /\ metrics.misses = 1
  /\ metrics.totalRequests = 2
  /\ ServedFromCache(resp)

\* the analytics value the cache holds under a key
CachedValue(key) == JsonParse(cache[key].text)

\* C28: under any interleaving of getDriverAnalytics requests for different
\* drivers, the cache entry under driver d's key holds an analytics value
\* whose driver_id is d, and a call for driver d that returns a result
\* returns the analytics of driver d.
C28_EntryBelongsToDriver ==
  /\ \A d \in DriverIds :
       DriverCacheKey(IntNum(d)) \in DOMAIN cache
         => CachedValue(DriverCacheKey(IntNum(d))).driver_id = d
  /\ (resp # NoResponse /\ resp.entry = "cached" /\ resp.outcome.kind = "ok")
       => IntNum(resp.outcome.value.driver_id) = resp.driverId[1]

\* requests for both drivers have missed and written their entries
C28_Witness ==
  /\ \A d \in DriverIds : DriverCacheKey(IntNum(d)) \in DOMAIN cache
  /\ MissedAndComputed(resp)
  /\ metrics.misses = Cardinality(DriverIds)

\* the calls of requestFn that have not settled yet
InFlight == { i \in DOMAIN reqs : reqs[i].pc = "pending" }

\* C29: for totalRequests >= 1 and concurrency >= 1 benchmarkEndpoint calls
\* the request function exactly totalRequests times, never has more than
\* `concurrency` calls in flight, starts a batch only after every call of
\* the previous batch has settled, and returns with successfulRequests +
\* failedRequests = totalRequests and exactly successfulRequests recorded
\* response times.
C29_BenchmarkCounts ==
  /\ [](/\ calls <= last.totalRequests
        /\ Cardinality(InFlight) <= last.concurrency
        /\ last.pc = "done" =>
             /\ calls = last.totalRequests
             /\ resp.successfulRequests + resp.failedRequests = resp.totalRequests
             /\ Len(resp.responseTimes) = resp.successfulRequests)
  /\ [][ calls' > calls => InFlight = {} ]_vars

\* a benchmark of several batches, the last one short, has returned with
\* successes and failures
C29_Witness ==
  /\ last.pc = "done"
  /\ last.concurrency > 1
  /\ last.totalRequests > last.concurrency
  /\ last.totalRequests % last.concurrency # 0
  /\ resp.successfulRequests > 0
  /\ resp.failedRequests > 0

\* C30: healthCheck never raises an error, reports redis = false exactly
\* when the cache ping fails, database = true whenever the data store
\* answers the query (whichever driver rows exist) and database = false
\* when the query fails.
C30_HealthReflectsDependencies ==
  resp.entry = "health" =>
    /\ ~resp.threw
    /\ resp.redis = resp.up
    /\ resp.database = resp.ok
====
